---- MODULE Spec2Model ----
(***************************************************************************)
(* Model of the movie recommendation client.                               *)
(*                                                                         *)
(*   SpecRec   - one getRecommendations(page) request                      *)
(*               (src/services/recommendations.ts) against a store and a   *)
(*               catalog whose calls may fail.                             *)
(*   SpecStore - rating presses of the movie detail screen                 *)
(*               (src/app/movie/[id].tsx, handleRating) and the store      *)
(*               writes they issue (src/services/database.ts).             *)
(*                                                                         *)
(* Numbers.  vote_average is kept in tenths (80 is 8.0) and every raw      *)
(* score in tenths of a point (1000 is 100.0), so that the arithmetic of   *)
(* calculateMovieScore is exact integer arithmetic.  ln is tabulated for   *)
(* the arguments that occur in the catalog of the model, in hundredths.    *)
(***************************************************************************)
EXTENDS Integers, Sequences, FiniteSets, TLC

VARIABLES
    \* ---- the store (supabase tables of the current user)
    user_ratings,       \* rows of table user_ratings
    user_preferences,   \* rows of table user_preferences
    \* ---- one getRecommendations request
    pc,                 \* position of the request
    page,               \* argument of getRecommendations
    favoriteGenres,     \* recommendations.ts:20
    ratedMovies,        \* recommendations.ts:29
    genreMoviesPromises,\* recommendations.ts:48, one record per issued query
    scoredMovies,       \* recommendations.ts:113-130, after the sort
    results,            \* the list the promise resolved with
    path,               \* which return statement produced the list
    discoverCalls,      \* number of tmdbService.discoverMovies calls issued
    popularCalls,       \* number of tmdbService.getPopularMovies calls issued
    failed,             \* collaborator calls of this request that failed
    \* ---- the movie detail screen and its store writes
    now,                \* Date.now()
    userRating,         \* [id].tsx:21, per displayed movie
    writes,             \* store requests in flight
    tasks,              \* updatePreferences closures in flight
    lastIssued,         \* per movie, value of the latest handleRating
    likesIssued,        \* per genre, number of likes touching it
    writeFailed,        \* some store call of a rating press failed
    \* ---- inputs and outputs of the functions applied on their own
    fnPc,               \* "input" before the function is applied, "done" after
    candidates,         \* the movies handed to calculateMovieScore
    totalLiked,         \* totalLikedMovies, recommendations.ts:354
    scoreDatas,         \* what calculateMovieScore returned, per candidate
    breakdowns,         \* what createMatchBreakdown returned, per candidate
    pool,               \* recommendations.ts:113, scoredMovies before the sort
    uniquePool,         \* uniqueMovies, recommendations.ts:97
    unratedPool,        \* unratedMovies, recommendations.ts:102
    \* ---- the profile screen and clearAllData
    watchlist,          \* rows of table watchlist
    clearPc,            \* position of the Clear press of handleClearData
    deletes,            \* delete queries of clearAllData in flight
    deleteFailed,       \* a delete query of clearAllData returned an error
    \* ---- the home screen
    homePc,             \* position of the mount effect of the home screen
    hasEnough,          \* index.tsx:28, "none" before hasEnoughRatings returned
    movies,             \* index.tsx:11
    loading,            \* index.tsx:12
    error,              \* index.tsx:13
    recCalls,           \* number of getRecommendations calls of the screen
    \* ---- buildTasteProfile, recommendations.ts:110
    tasteProfile,       \* the profile built, NoProfile before and after a throw
    \* ---- the fan-in of the discovery queries, recommendations.ts:93
    responses,          \* per issued query, the page the catalog answers with
    arrivals,           \* indexes of the queries in the order they completed
    \* ---- the watchlist button of the movie detail screen
    inWatchlist,        \* [id].tsx:22
    watchCalls,         \* addToWatchlist / removeFromWatchlist calls in flight
    toggles,            \* number of toggleWatchlist presses
    watchFailed,        \* some watchlist call failed
    \* ---- the search screen
    searchQuery,        \* search.tsx:17
    searchResults,      \* search.tsx:18
    searchLoading,      \* search.tsx:19
    searches,           \* searchMovies requests in flight
    searchCalls,        \* number of searchMovies requests issued
    searchFailed,       \* some searchMovies request failed
    \* ---- the chat screen
    messages,           \* chat.tsx:26
    input,              \* chat.tsx:34
    chatLoading,        \* chat.tsx:35
    chatCalls           \* number of groqService.chat calls issued

recVars   == <<pc, page, favoriteGenres, ratedMovies, genreMoviesPromises,
               scoredMovies, results, path, discoverCalls, popularCalls, failed>>
storeVars == <<user_ratings, user_preferences>>
uiVars    == <<now, userRating, writes, tasks, lastIssued, likesIssued, writeFailed>>
fnVars    == <<fnPc, candidates, totalLiked, scoreDatas, breakdowns,
               pool, uniquePool, unratedPool>>
profileVars == <<watchlist, clearPc, deletes, deleteFailed>>
homeVars  == <<homePc, hasEnough, movies, loading, error, recCalls>>
tasteVars == <<tasteProfile>>
fanVars   == <<responses, arrivals>>
watchVars == <<inWatchlist, watchCalls, toggles, watchFailed>>
searchVars == <<searchQuery, searchResults, searchLoading, searches, searchCalls,
               searchFailed>>
chatVars  == <<messages, input, chatLoading, chatCalls>>
moreVars  == <<tasteVars, fanVars, watchVars, searchVars, chatVars>>
extVars   == <<fnVars, profileVars, homeVars, moreVars>>
vars      == <<user_ratings, user_preferences, pc, page, favoriteGenres,
               ratedMovies, genreMoviesPromises, scoredMovies, results, path,
               discoverCalls, popularCalls, failed, now, userRating, writes,
               tasks, lastIssued, likesIssued, writeFailed, fnPc, candidates,
               totalLiked, scoreDatas, breakdowns, pool, uniquePool,
               unratedPool, watchlist, clearPc, deletes, deleteFailed,
               homePc, hasEnough, movies, loading, error, recCalls,
               tasteProfile, responses, arrivals, inWatchlist, watchCalls,
               toggles, watchFailed, searchQuery, searchResults,
               searchLoading, searches, searchCalls, searchFailed, messages, input,
               chatLoading, chatCalls>>

----------------------------------------------------------------------------
(* Generic helpers *)

Min(a, b) == IF a < b THEN a ELSE b
Abs(a) == IF a < 0 THEN -a ELSE a

\* Array.prototype.includes
Includes(s, x) == \E i \in DOMAIN s : s[i] = x

\* Array.prototype.slice(from, to) with 0-based, end-exclusive indices
Slice(s, from, to) ==
    LET lo == Min(from, Len(s))
        hi == Min(to, Len(s))
    IN  IF hi <= lo THEN <<>> ELSE SubSeq(s, lo + 1, hi)

\* Array.prototype.flatMap(result => result.results)
RECURSIVE FlatMapResults(_)
FlatMapResults(rs) ==
    IF rs = <<>> THEN <<>> ELSE Head(rs).results \o FlatMapResults(Tail(rs))

RECURSIVE SumSeq(_)
SumSeq(s) == IF s = <<>> THEN 0 ELSE Head(s) + SumSeq(Tail(s))

----------------------------------------------------------------------------
(* Bounds of the model *)

MaxPage == 3            \* pages 1..MaxPage are requested
MaxPresses == 2         \* rating presses on the detail screen

----------------------------------------------------------------------------
(* The catalog: movies the catalog service can return *)

Action == 28
Horror == 27
Drama == 18
Comedy == 35

Movie(id, genre_ids, vote_average, vote_count, popularity, release_date) ==
    [id |-> id, genre_ids |-> genre_ids, vote_average |-> vote_average,
     vote_count |-> vote_count, popularity |-> popularity,
     release_date |-> release_date]

\* release_date is the year of the date string, 0 for a missing or empty one.
M1 == Movie(1, <<Action, Horror>>, 80, 5000, 100, 2024)
M2 == Movie(2, <<Comedy>>, 80, 5000, 100, 2024)
M3 == Movie(3, <<Action>>, 0, 0, 0, 2024)
M4 == Movie(4, <<Drama, Action>>, 76, 30000, 1000, 1980)
M5 == Movie(5, <<Horror, Action>>, 80, 5000, 100, 2024)

\* result pages a discovery query can be answered with
ResultPages == { <<>>, <<M1, M2, M3>>, <<M4, M5, M1>> }

\* tmdbService.getPopularMovies(page).results
PopularResults(p) == IF p % 2 = 1 THEN <<M1, M2>> ELSE <<M3, M4>>

----------------------------------------------------------------------------
(* The store: rows and the read calls of databaseService *)

\* movie_data snapshot written by rateMovie: null when no object was passed
NoData == [kind |-> "null", has_genre_ids |-> FALSE, genre_ids |-> <<>>]
\* the snapshot handleRating writes ([id].tsx:89-98)
Snapshot(genre_ids) ==
    [kind |-> "object", has_genre_ids |-> TRUE, genre_ids |-> genre_ids]
\* the snapshot handleSwipe writes (chat.tsx:507-511): no genre_ids
SwipeSnapshot == [kind |-> "object", has_genre_ids |-> FALSE, genre_ids |-> <<>>]

Rating(movie_id, rating, timestamp, movie_data) ==
    [movie_id |-> movie_id, rating |-> rating, timestamp |-> timestamp,
     movie_data |-> movie_data]

Preference(genre_id, weight) == [genre_id |-> genre_id, weight |-> weight]

\* .order('timestamp', { ascending: false }) over a set of rows; rows that
\* tie on the key keep an arbitrary but fixed order
RECURSIVE OrderByTimestampDesc(_)
OrderByTimestampDesc(rows) ==
    IF rows = {} THEN <<>>
    ELSE LET top == CHOOSE r \in rows : \A q \in rows : q.timestamp <= r.timestamp
         IN  <<top>> \o OrderByTimestampDesc(rows \ {top})

\* .order('weight', { ascending: false })
RECURSIVE OrderByWeightDesc(_)
OrderByWeightDesc(rows) ==
    IF rows = {} THEN <<>>
    ELSE LET top == CHOOSE r \in rows : \A q \in rows : q.weight <= r.weight
         IN  <<top>> \o OrderByWeightDesc(rows \ {top})

FavoriteLimit == 5

\* databaseService.getAllRatings when the query succeeds
getAllRatings(rows) == OrderByTimestampDesc(rows)

\* databaseService.getGenrePreferences when the query succeeds
getGenrePreferences(rows) == OrderByWeightDesc(rows)

\* databaseService.getFavoriteGenreIds(limit) when the query succeeds
getFavoriteGenreIds(rows, limit) ==
    LET ordered == OrderByWeightDesc({r \in rows : r.weight > 0})
    IN  [i \in 1..Min(limit, Len(ordered)) |-> ordered[i].genre_id]

----------------------------------------------------------------------------
(* calculateMovieScore, recommendations.ts:270-344 *)

CurrentYear == 2026

\* ln(n) in hundredths, for the arguments the catalog of the model produces
Ln100(n) ==
    CASE n = 1 -> 0
      [] n = 101 -> 462
      [] n = 1001 -> 691
      [] n = 5001 -> 852
      [] n = 30001 -> 1031

\* Math.min(Math.log(vote_count + 1) * 3, 30), in tenths
voteCountScore(movie) == Min((Ln100(movie.vote_count + 1) * 3) \div 10, 300)

\* Math.min(Math.log(popularity + 1) * 2, 20), in tenths
popularityScore(movie) == Min((Ln100(movie.popularity + 1) * 2) \div 10, 200)

\* a missing release date read as the current year
ReleaseYearNow(movie) ==
    IF movie.release_date # 0 THEN movie.release_date ELSE CurrentYear

releaseYear(movie) == IF movie.release_date # 0 THEN movie.release_date ELSE 0

movieAge(movie) == CurrentYear - releaseYear(movie)

ageCategory(movie) ==
    IF movieAge(movie) > 40 THEN "Classic"
    ELSE IF movieAge(movie) > 10 /\ movieAge(movie) < 40 THEN "Modern Classic"
    ELSE IF movieAge(movie) > 5 /\ movieAge(movie) <= 10 THEN "Recent Hit"
    ELSE "Recent"

\* in tenths
ageBonus(movie) ==
    IF movieAge(movie) > 40 THEN 200
    ELSE IF movieAge(movie) > 10 /\ movieAge(movie) < 40 THEN 150
    ELSE IF movieAge(movie) > 5 /\ movieAge(movie) <= 10 THEN 100
    ELSE 0

genreMatches(movie, favGenres) ==
    SelectSeq(movie.genre_ids, LAMBDA id : Includes(favGenres, id))

\* a flat penalty per disliked movie that shares a genre
PenaltyFlatPerMovie(movie, disliked) ==
    IF disliked.movie_data.kind = "object" /\ disliked.movie_data.has_genre_ids
       /\ \E i \in DOMAIN movie.genre_ids :
             Includes(disliked.movie_data.genre_ids, movie.genre_ids[i])
    THEN 150
    ELSE 0

\* recommendations.ts:335-340, one disliked rating, in tenths
sharedGenresPenalty(movie, disliked) ==
    IF disliked.movie_data.kind = "object" /\ disliked.movie_data.has_genre_ids
    THEN Len(SelectSeq(movie.genre_ids,
                       LAMBDA id : Includes(disliked.movie_data.genre_ids, id))) * 150
    ELSE 0

\* recommendations.ts:326-341: the loop over the disliked ratings
RECURSIVE dislikePenalty(_, _)
dislikePenalty(movie, rated) ==
    IF rated = <<>> THEN 0
    ELSE (IF Head(rated).rating = -1
          THEN sharedGenresPenalty(movie, Head(rated)) ELSE 0)
         + dislikePenalty(movie, Tail(rated))

\* the score with the genre weight of 50 the code had before
calculateMovieScoreGenre50(movie, favGenres, rated) ==
    LET genreMatchCount == Len(genreMatches(movie, favGenres))
        qualityScore == movie.vote_average * 15
        score == genreMatchCount * 500 + qualityScore + voteCountScore(movie)
                 + popularityScore(movie) + ageBonus(movie)
                 - dislikePenalty(movie, rated)
    IN  [score |-> score, genreMatchCount |-> genreMatchCount,
         ageCategory |-> ageCategory(movie), qualityScore |-> qualityScore]

calculateMovieScore(movie, favGenres, rated) ==
    LET genreMatchCount == Len(genreMatches(movie, favGenres))
        qualityScore == movie.vote_average * 15
        score == genreMatchCount * 1000 + qualityScore + voteCountScore(movie)
                 + popularityScore(movie) + ageBonus(movie)
                 - dislikePenalty(movie, rated)
    IN  [score |-> score, genreMatchCount |-> genreMatchCount,
         ageCategory |-> ageCategory(movie), qualityScore |-> qualityScore]

----------------------------------------------------------------------------
(* createMatchBreakdown, recommendations.ts:349-387 *)

GENRE_NAMES(id) ==
    CASE id = 28 -> "Action"
      [] id = 27 -> "Horror"
      [] id = 18 -> "Drama"
      [] id = 35 -> "Comedy"
      [] OTHER -> "Unknown"

\* a reason string: its fixed text, and the values interpolated into it
Reason(kind, text, n) == [kind |-> kind, text |-> text, n |-> n]

FallbackReason == Reason("Recommended based on your preferences", "", 0)

HighlyRatedThreshold == 75

\* recommendations.ts:359-376
ReasonsNoFallback(movie, scoreData, totalLikedMovies) ==
    (IF scoreData.genreMatchCount > 0
     THEN <<Reason("Matches of your favorite genres", "", scoreData.genreMatchCount)>>
     ELSE <<>>)
    \o (IF movie.vote_average >= HighlyRatedThreshold
        THEN <<Reason("Highly rated", "", movie.vote_average)>>
        ELSE <<>>)
    \o (IF scoreData.ageCategory # "Recent"
        THEN <<Reason("film", scoreData.ageCategory, 0)>>
        ELSE <<>>)
    \o (IF totalLikedMovies > 5 /\ scoreData.genreMatchCount >= 2
        THEN <<Reason("Strong genre alignment with your taste", "", 0)>>
        ELSE <<>>)

\* the reasons with the age-category reason pushed first
ReasonsAgeFirst(movie, scoreData, totalLikedMovies) ==
    LET reasons ==
            (IF scoreData.ageCategory # "Recent"
             THEN <<Reason("film", scoreData.ageCategory, 0)>>
             ELSE <<>>)
            \o (IF scoreData.genreMatchCount > 0
                THEN <<Reason("Matches of your favorite genres", "",
                              scoreData.genreMatchCount)>>
                ELSE <<>>)
            \o (IF movie.vote_average >= HighlyRatedThreshold
                THEN <<Reason("Highly rated", "", movie.vote_average)>>
                ELSE <<>>)
            \o (IF totalLikedMovies > 5 /\ scoreData.genreMatchCount >= 2
                THEN <<Reason("Strong genre alignment with your taste", "", 0)>>
                ELSE <<>>)
    IN  IF Len(reasons) > 0 THEN reasons ELSE <<FallbackReason>>

\* the reasons with the strong alignment flagged from five likes on
ReasonsStrongFromFive(movie, scoreData, totalLikedMovies) ==
    LET reasons ==
            (IF scoreData.genreMatchCount > 0
             THEN <<Reason("Matches of your favorite genres", "",
                           scoreData.genreMatchCount)>>
             ELSE <<>>)
            \o (IF movie.vote_average >= HighlyRatedThreshold
                THEN <<Reason("Highly rated", "", movie.vote_average)>>
                ELSE <<>>)
            \o (IF scoreData.ageCategory # "Recent"
                THEN <<Reason("film", scoreData.ageCategory, 0)>>
                ELSE <<>>)
            \o (IF totalLikedMovies >= 5 /\ scoreData.genreMatchCount >= 2
                THEN <<Reason("Strong genre alignment with your taste", "", 0)>>
                ELSE <<>>)
    IN  IF Len(reasons) > 0 THEN reasons ELSE <<FallbackReason>>

\* recommendations.ts:385
reasonsOf(movie, scoreData, totalLikedMovies) ==
    LET reasons == ReasonsNoFallback(movie, scoreData, totalLikedMovies)
    IN  IF Len(reasons) > 0 THEN reasons ELSE <<FallbackReason>>

\* a JavaScript number that is a ratio of two integers, den > 0
Ratio(num, den) == IF den < 0 THEN [num |-> -num, den |-> -den]
                   ELSE [num |-> num, den |-> den]

\* Math.round: the nearest integer, halves towards +Infinity
MathRound(x) == (2 * x.num + x.den) \div (2 * x.den)

createMatchBreakdown(movie, percentage, scoreData, favGenres, totalLikedMovies) ==
    LET matchedGenreIds == genreMatches(movie, favGenres)
    IN  [percentage |-> MathRound(percentage),
         genreMatches |-> scoreData.genreMatchCount,
         genreMatchNames |-> [i \in DOMAIN matchedGenreIds |->
                                 GENRE_NAMES(matchedGenreIds[i])],
         qualityScore |-> movie.vote_average,
         ageCategory |-> scoreData.ageCategory,
         totalLikedMovies |-> totalLikedMovies,
         reasons |-> reasonsOf(movie, scoreData, totalLikedMovies)]

----------------------------------------------------------------------------
(* The synchronous part of getRecommendations, recommendations.ts:95-169 *)

\* the deduplication that keeps the entry of the first occurrence
UniqueFirstWins(allMovies) ==
    SelectSeq([i \in DOMAIN allMovies |->
                  IF \A j \in 1..(i - 1) : allMovies[j].id # allMovies[i].id
                  THEN allMovies[i] ELSE [id |-> 0]],
              LAMBDA movie : movie.id # 0)

\* recommendations.ts:97-99, Array.from(new Map(pairs).values()): one entry
\* per id, at the position of the id's first occurrence, holding the value
\* of its last occurrence
uniqueMoviesOf(allMovies) ==
    LET firsts == SelectSeq([i \in DOMAIN allMovies |-> i],
                     LAMBDA i : \A j \in 1..(i - 1) : allMovies[j].id # allMovies[i].id)
        lastOf(id) == CHOOSE i \in DOMAIN allMovies :
                         /\ allMovies[i].id = id
                         /\ \A j \in (i + 1)..Len(allMovies) : allMovies[j].id # id
    IN  [k \in DOMAIN firsts |-> allMovies[lastOf(allMovies[firsts[k]].id)]]

\* recommendations.ts:30
ratedMovieIdsOf(rated) == {rated[i].movie_id : i \in DOMAIN rated}

\* recommendations.ts:102-104
unratedMoviesOf(uniqueMovies, rated) ==
    SelectSeq(uniqueMovies, LAMBDA movie : movie.id \notin ratedMovieIdsOf(rated))

\* recommendations.ts:107
likedMoviesOf(rated) == SelectSeq(rated, LAMBDA r : r.rating = 1)

\* recommendations.ts:113-120
scoreAll(unratedMovies, favGenres, rated) ==
    [i \in DOMAIN unratedMovies |->
        LET scoreData == calculateMovieScore(unratedMovies[i], favGenres, rated)
        IN  [movie |-> unratedMovies[i], score |-> scoreData.score,
             rawScoreData |-> scoreData]]

\* recommendations.ts:123-130, the comparator: the signs it can return for
\* (a, b); a positive sign puts b before a
CompareSigns(a, b) ==
    LET scoreDiff == b.score - a.score
    IN  IF 10 * Abs(scoreDiff) < b.score THEN {-1, 1}
        ELSE IF scoreDiff > 0 THEN {1}
        ELSE IF scoreDiff < 0 THEN {-1}
        ELSE {0}

\* Array.prototype.sort with that comparator: the comparator is not a
\* consistent order, so the outcome depends on the comparisons the engine
\* makes; the engine is modelled as an insertion sort that inserts each
\* element from the right end of the sorted prefix
RECURSIVE InsertOutcomes(_, _)
InsertOutcomes(prefix, x) ==
    IF prefix = <<>> THEN {<<x>>}
    ELSE LET a == prefix[Len(prefix)]
             signs == CompareSigns(a, x)
         IN  (IF \E sg \in signs : sg <= 0 THEN {Append(prefix, x)} ELSE {})
             \cup
             (IF \E sg \in signs : sg > 0
              THEN {Append(r, a) :
                      r \in InsertOutcomes(SubSeq(prefix, 1, Len(prefix) - 1), x)}
              ELSE {})

RECURSIVE SortOutcomes(_)
SortOutcomes(s) ==
    IF s = <<>> THEN {<<>>}
    ELSE UNION {InsertOutcomes(sortedPrefix, s[Len(s)]) :
                   sortedPrefix \in SortOutcomes(SubSeq(s, 1, Len(s) - 1))}

PageSize == 20
WindowStep == 7
WindowCycle == 3

\* the window without the cycle of three offsets
SelectedNoCycle(sorted, pageArg) ==
    LET startIndex == (pageArg - 1) * WindowStep
        endIndex == startIndex + PageSize
        selected == Slice(sorted, startIndex, endIndex)
    IN  IF Len(selected) < PageSize
        THEN selected \o Slice(Slice(sorted, endIndex, Len(sorted)),
                               0, PageSize - Len(selected))
        ELSE selected

\* the window padded from the top of the ranking
SelectedPadFromTop(sorted, pageArg) ==
    LET startIndex == ((pageArg - 1) % WindowCycle) * WindowStep
        endIndex == startIndex + PageSize
        selected == Slice(sorted, startIndex, endIndex)
    IN  IF Len(selected) < PageSize
        THEN selected \o Slice(sorted, 0, PageSize - Len(selected))
        ELSE selected

\* recommendations.ts:138-148
selectedMoviesOf(sorted, pageArg) ==
    LET startIndex == ((pageArg - 1) % WindowCycle) * WindowStep
        endIndex == startIndex + PageSize
        selected == Slice(sorted, startIndex, endIndex)
    IN  IF Len(selected) < PageSize
        THEN selected \o Slice(Slice(sorted, endIndex, Len(sorted)),
                               0, PageSize - Len(selected))
        ELSE selected

\* recommendations.ts:133-135; scores are in tenths, so the literal 1 is 10
maxScoreOf(sorted) ==
    IF Len(sorted) > 0 /\ sorted[1].score # 0 THEN sorted[1].score ELSE 10
\* the minimum taken at the end of the first page window
MinScoreOfFirstWindow(sorted) ==
    IF Len(sorted) > 0 THEN sorted[Min(Len(sorted), PageSize)].score ELSE 0

minScoreOf(sorted) ==
    IF Len(sorted) > 0 THEN sorted[Len(sorted)].score ELSE 0
scoreRangeOf(sorted) ==
    IF maxScoreOf(sorted) - minScoreOf(sorted) # 0
    THEN maxScoreOf(sorted) - minScoreOf(sorted) ELSE 10

\* recommendations.ts:152
normalizedScoreOf(item, sorted) ==
    Ratio((item.score - minScoreOf(sorted)) * 100, scoreRangeOf(sorted))

NoClamp(x) == x

\* recommendations.ts:153, Math.max(50, Math.min(99, x))
clampPercentage(x) ==
    LET capped == IF x.num > 99 * x.den THEN Ratio(99, 1) ELSE x
    IN  IF capped.num < 50 * capped.den THEN Ratio(50, 1) ELSE capped

\* recommendations.ts:151-167
resultsOf(sorted, pageArg, favGenres, rated) ==
    LET selectedMovies == selectedMoviesOf(sorted, pageArg)
    IN  [i \in DOMAIN selectedMovies |->
           LET item == selectedMovies[i]
               percentage == clampPercentage(normalizedScoreOf(item, sorted))
           IN  [id |-> item.movie.id,
                genre_ids |-> item.movie.genre_ids,
                vote_average |-> item.movie.vote_average,
                vote_count |-> item.movie.vote_count,
                popularity |-> item.movie.popularity,
                release_date |-> item.movie.release_date,
                matchScore |-> createMatchBreakdown(item.movie, percentage,
                                  item.rawScoreData, favGenres,
                                  Len(likedMoviesOf(rated)))]]

----------------------------------------------------------------------------
(* Building the discovery queries, recommendations.ts:33-91 *)

\* recommendations.ts:34-39
yearRanges ==
    << [min |-> CurrentYear - 2, max |-> CurrentYear],
       [min |-> CurrentYear - 10, max |-> CurrentYear - 3],
       [min |-> 1990, max |-> CurrentYear - 11],
       [min |-> 1970, max |-> 1989] >>

\* recommendations.ts:41-46
sortMethods ==
    << "popularity.desc", "vote_average.desc", "vote_count.desc",
       "primary_release_date.desc" >>

\* the outcomes of the Math.random() calls made for one favorite genre:
\* the year range (the first and the last range stand for the four, they
\* give both values of minVoteCount), whether the extra query is issued,
\* and its year (the first year of the range stands for the range)
RandomChoices ==
    { c \in [yearRangeIndex : {0, 3}, extra : BOOLEAN, randomYear : 1970..CurrentYear] :
        c.randomYear = yearRanges[c.yearRangeIndex + 1].min }

Query(genre, fetchPage, sortBy, minVoteCount, minVoteAverage, year) ==
    [genre |-> genre, page |-> fetchPage, sortBy |-> sortBy,
     minVoteCount |-> minVoteCount, minVoteAverage |-> minVoteAverage,
     year |-> year, status |-> "pending", results |-> <<>>]

\* recommendations.ts:51-91, the body of the forEach for one genre;
\* genreIndex is 0-based, year 0 stands for no year parameter
queriesForGenre(favGenres, genreIndex, pageArg, c) ==
    LET genreId == favGenres[genreIndex + 1]
        basePage == ((pageArg - 1) \div Len(favGenres)) + 1
        pageOffset == (pageArg - 1) % Len(favGenres)
        fetchPage == basePage + (IF genreIndex = pageOffset THEN 1 ELSE 0)
        yearRange == yearRanges[c.yearRangeIndex + 1]
        sortBy == sortMethods[(genreIndex % Len(sortMethods)) + 1]
    IN  <<Query(genreId, fetchPage, sortBy,
                IF yearRange.min < 2000 THEN 50 ELSE 100, 55, 0)>>
        \o (IF c.extra
            THEN <<Query(genreId, 1, "vote_average.desc", 30, 65, c.randomYear)>>
            ELSE <<>>)

RECURSIVE queriesFrom(_, _, _, _)
queriesFrom(favGenres, genreIndex, pageArg, choices) ==
    IF genreIndex >= Len(favGenres) THEN <<>>
    ELSE queriesForGenre(favGenres, genreIndex, pageArg, choices[genreIndex + 1])
         \o queriesFrom(favGenres, genreIndex + 1, pageArg, choices)

----------------------------------------------------------------------------
(* States of the store a request can find *)

Histories ==
    { {},
      {Rating(1, -1, 1, Snapshot(<<Action, Horror>>)),
       Rating(2, -1, 2, Snapshot(<<Comedy>>))},
      {Rating(9, -1, 1, Snapshot(<<Action, Horror>>)),
       Rating(4, 1, 2, Snapshot(<<Drama, Action>>))},
      {Rating(3, -1, 1, Snapshot(<<Action>>)),
       Rating(7, 1, 2, SwipeSnapshot)},
      {Rating(9, -1, 1, Snapshot(<<Action, Horror>>)),
       Rating(8, -1, 2, Snapshot(<<Action>>)),
       Rating(7, 1, 3, SwipeSnapshot)},
      {Rating(1, 1, 1, Snapshot(<<Action, Horror>>)),
       Rating(2, -1, 2, Snapshot(<<Comedy>>)),
       Rating(3, -1, 3, SwipeSnapshot),
       Rating(4, 1, 4, Snapshot(<<Drama, Action>>)),
       Rating(5, 1, 5, NoData)} }

PreferenceStates ==
    { {},
      {Preference(Drama, 2)},
      {Preference(Action, 3), Preference(Drama, 1)} }

----------------------------------------------------------------------------
(* SpecRec: one getRecommendations(page) request *)

\* outcomes of a read call of databaseService: the rows, a supabase error
\* (the service returns []), or an exception out of the call
StoreOutcomes == {"ok", "error", "throw"}

UiIdle ==
    /\ now = 1
    /\ userRating = <<>>
    /\ writes = {}
    /\ tasks = {}
    /\ lastIssued = <<>>
    /\ likesIssued = <<>>
    /\ writeFailed = FALSE

FnIdle ==
    /\ fnPc = "idle"
    /\ candidates = <<>>
    /\ totalLiked = 0
    /\ scoreDatas = <<>>
    /\ breakdowns = <<>>
    /\ pool = <<>>
    /\ uniquePool = <<>>
    /\ unratedPool = <<>>

ProfileIdle ==
    /\ watchlist = {}
    /\ clearPc = "idle"
    /\ deletes = {}
    /\ deleteFailed = FALSE

HomeIdle ==
    /\ homePc = "unmounted"
    /\ hasEnough = "none"
    /\ movies = <<>>
    /\ loading = TRUE
    /\ error = FALSE
    /\ recCalls = 0

\* no profile has been built
NoProfile == [built |-> FALSE]

TasteIdle == tasteProfile = NoProfile

FanIdle == responses = <<>> /\ arrivals = <<>>

WatchIdle ==
    /\ inWatchlist = FALSE
    /\ watchCalls = {}
    /\ toggles = 0
    /\ watchFailed = FALSE

SearchIdle ==
    /\ searchQuery = <<>>
    /\ searchResults = <<>>
    /\ searchLoading = FALSE
    /\ searches = {}
    /\ searchCalls = 0
    /\ searchFailed = FALSE

ChatIdle ==
    /\ messages = <<>>
    /\ input = <<>>
    /\ chatLoading = FALSE
    /\ chatCalls = 0

MoreIdle == TasteIdle /\ FanIdle /\ WatchIdle /\ SearchIdle /\ ChatIdle

ExtIdle == FnIdle /\ ProfileIdle /\ HomeIdle /\ MoreIdle

RecIdle ==
    /\ pc = "idle"
    /\ favoriteGenres = <<>>
    /\ ratedMovies = <<>>
    /\ genreMoviesPromises = <<>>
    /\ scoredMovies = <<>>
    /\ results = <<>>
    /\ path = "none"
    /\ discoverCalls = 0
    /\ popularCalls = 0
    /\ failed = {}

InitRec ==
    /\ user_ratings \in Histories
    /\ user_preferences \in PreferenceStates
    /\ page \in 1..MaxPage
    /\ RecIdle
    /\ UiIdle
    /\ ExtIdle

\* recommendations.ts:17-18, the call
Call ==
    /\ pc = "idle"
    /\ pc' = "getFavoriteGenreIds"
    /\ UNCHANGED <<user_ratings, user_preferences, page, favoriteGenres,
                   ratedMovies, genreMoviesPromises, scoredMovies, results,
                   path, discoverCalls, popularCalls, failed>>
    /\ UNCHANGED uiVars
    /\ UNCHANGED extVars

\* recommendations.ts:20-26 with database.ts:134-148
GetFavoriteGenreIds ==
    /\ pc = "getFavoriteGenreIds"
    /\ \E outcome \in StoreOutcomes :
         /\ favoriteGenres' = IF outcome = "ok"
                              THEN getFavoriteGenreIds(user_preferences, FavoriteLimit)
                              ELSE <<>>
         /\ failed' = IF outcome = "ok" THEN failed
                      ELSE failed \cup {"getFavoriteGenreIds"}
         /\ pc' = IF outcome = "throw" THEN "catch"
                  ELSE IF Len(favoriteGenres') = 0 THEN "coldStart"
                  ELSE "getAllRatings"
    /\ UNCHANGED <<user_ratings, user_preferences, page, ratedMovies,
                   genreMoviesPromises, scoredMovies, results, path,
                   discoverCalls, popularCalls>>
    /\ UNCHANGED uiVars
    /\ UNCHANGED extVars

\* the cold-start return with the page argument dropped
ColdStartFirstPage ==
    /\ pc = "coldStart"
    /\ popularCalls' = popularCalls + 1
    /\ \/ /\ results' = PopularResults(1)
          /\ path' = "coldStart"
          /\ pc' = "resolved"
          /\ failed' = failed
       \/ /\ failed' = failed \cup {"getPopularMovies"}
          /\ pc' = "catch"
          /\ UNCHANGED <<results, path>>
    /\ UNCHANGED <<user_ratings, user_preferences, page, favoriteGenres,
                   ratedMovies, genreMoviesPromises, scoredMovies, discoverCalls>>
    /\ UNCHANGED uiVars
    /\ UNCHANGED extVars

\* recommendations.ts:22-26 with tmdb.ts:13-16
ColdStart ==
    /\ pc = "coldStart"
    /\ popularCalls' = popularCalls + 1
    /\ \/ /\ results' = PopularResults(page)
          /\ path' = "coldStart"
          /\ pc' = "resolved"
          /\ failed' = failed
       \/ /\ failed' = failed \cup {"getPopularMovies"}
          /\ pc' = "catch"
          /\ UNCHANGED <<results, path>>
    /\ UNCHANGED <<user_ratings, user_preferences, page, favoriteGenres,
                   ratedMovies, genreMoviesPromises, scoredMovies, discoverCalls>>
    /\ UNCHANGED uiVars
    /\ UNCHANGED extVars

\* recommendations.ts:29-91 with database.ts:59-71: the rating history is
\* read, then the queries are built and issued
GetAllRatings ==
    /\ pc = "getAllRatings"
    /\ \E outcome \in StoreOutcomes :
         /\ ratedMovies' = IF outcome = "ok" THEN getAllRatings(user_ratings)
                           ELSE <<>>
         /\ failed' = IF outcome = "ok" THEN failed
                      ELSE failed \cup {"getAllRatings"}
         /\ IF outcome = "throw"
            THEN /\ pc' = "catch"
                 /\ UNCHANGED <<genreMoviesPromises, discoverCalls>>
            ELSE \E choices \in [1..Len(favoriteGenres) -> RandomChoices] :
                   /\ genreMoviesPromises' =
                         queriesFrom(favoriteGenres, 0, page, choices)
                   /\ discoverCalls' = discoverCalls + Len(genreMoviesPromises')
                   /\ pc' = "awaitDiscover"
    /\ UNCHANGED <<user_ratings, user_preferences, page, favoriteGenres,
                   scoredMovies, results, path, popularCalls>>
    /\ UNCHANGED uiVars
    /\ UNCHANGED extVars

\* tmdb.ts:49-76: one discovery query is answered
DiscoverFulfilled ==
    /\ pc = "awaitDiscover"
    /\ \E i \in DOMAIN genreMoviesPromises, response \in ResultPages :
         /\ genreMoviesPromises[i].status = "pending"
         /\ genreMoviesPromises' =
               [genreMoviesPromises EXCEPT ![i].status = "fulfilled",
                                           ![i].results = response]
    /\ UNCHANGED <<user_ratings, user_preferences, pc, page, favoriteGenres,
                   ratedMovies, scoredMovies, results, path, discoverCalls,
                   popularCalls, failed>>
    /\ UNCHANGED uiVars
    /\ UNCHANGED extVars

\* recommendations.ts:93: one discovery query fails, Promise.all rejects
DiscoverRejected ==
    /\ pc = "awaitDiscover"
    /\ \E i \in DOMAIN genreMoviesPromises :
         /\ genreMoviesPromises[i].status = "pending"
         /\ genreMoviesPromises' =
               [genreMoviesPromises EXCEPT ![i].status = "rejected"]
    /\ failed' = failed \cup {"discoverMovies"}
    /\ pc' = "catch"
    /\ UNCHANGED <<user_ratings, user_preferences, page, favoriteGenres,
                   ratedMovies, scoredMovies, results, path, discoverCalls,
                   popularCalls>>
    /\ UNCHANGED uiVars
    /\ UNCHANGED extVars

\* recommendations.ts:93-169: every query is answered, Promise.all resolves
\* and the list is computed
Compute ==
    /\ pc = "awaitDiscover"
    /\ \A i \in DOMAIN genreMoviesPromises :
          genreMoviesPromises[i].status = "fulfilled"
    /\ LET allMovies == FlatMapResults(genreMoviesPromises)
           uniqueMovies == uniqueMoviesOf(allMovies)
           unratedMovies == unratedMoviesOf(uniqueMovies, ratedMovies)
           scored == scoreAll(unratedMovies, favoriteGenres, ratedMovies)
       IN  \E sorted \in SortOutcomes(scored) :
             /\ scoredMovies' = sorted
             /\ results' = resultsOf(sorted, page, favoriteGenres, ratedMovies)
    /\ path' = "personalised"
    /\ pc' = "resolved"
    /\ UNCHANGED <<user_ratings, user_preferences, page, favoriteGenres,
                   ratedMovies, genreMoviesPromises, discoverCalls,
                   popularCalls, failed>>
    /\ UNCHANGED uiVars
    /\ UNCHANGED extVars

\* recommendations.ts:170-175 with tmdb.ts:13-16
Catch ==
    /\ pc = "catch"
    /\ popularCalls' = popularCalls + 1
    /\ \/ /\ results' = PopularResults(page)
          /\ path' = "fallback"
          /\ pc' = "resolved"
          /\ failed' = failed
       \/ /\ failed' = failed \cup {"getPopularMovies"}
          /\ pc' = "rejected"
          /\ UNCHANGED <<results, path>>
    /\ UNCHANGED <<user_ratings, user_preferences, page, favoriteGenres,
                   ratedMovies, genreMoviesPromises, scoredMovies, discoverCalls>>
    /\ UNCHANGED uiVars
    /\ UNCHANGED extVars

NextRec ==
    \/ Call
    \/ GetFavoriteGenreIds
    \/ ColdStart
    \/ GetAllRatings
    \/ DiscoverFulfilled
    \/ DiscoverRejected
    \/ Compute
    \/ Catch

SpecRec == InitRec /\ [][NextRec]_vars

----------------------------------------------------------------------------
(* Properties of a getRecommendations request (SpecRec) *)

SetOf(s) == {s[i] : i \in DOMAIN s}

Settled == pc \in {"resolved", "rejected"}

HasMatchScore(m) == "matchScore" \in DOMAIN m

\* C1: no movie whose id appears in the user's rating history is in the
\* list a getRecommendations call returns, on any path.
C1_NoSelfRecommendation ==
    pc = "resolved" =>
        \A i \in DOMAIN results :
            results[i].id \notin {r.movie_id : r \in user_ratings}

\* C2: every MatchBreakdown returned by getRecommendations has an integer
\* percentage between 50 and 99 inclusive.
C2_BoundedPercentage ==
    pc = "resolved" =>
        \A i \in DOMAIN results :
            HasMatchScore(results[i]) =>
                /\ results[i].matchScore.percentage \in Int
                /\ results[i].matchScore.percentage >= 50
                /\ results[i].matchScore.percentage <= 99

\* C2 witness: a personalised list was returned for a pool that holds a
\* candidate with a negative raw score.
C2_Witness ==
    /\ pc = "resolved"
    /\ path = "personalised"
    /\ Len(results) > 1
    /\ \E i \in DOMAIN scoredMovies : scoredMovies[i].score < 0

\* none of the four reason conditions holds for the returned movie m
NoReasonCondition(m) ==
    /\ m.matchScore.genreMatches = 0
    /\ m.vote_average < 75
    /\ m.matchScore.ageCategory = "Recent"
    /\ ~(m.matchScore.totalLikedMovies > 5 /\ m.matchScore.genreMatches >= 2)

\* C3: every MatchBreakdown has a non-empty reasons list; when none of the
\* four reason conditions holds it is exactly the generic fallback reason,
\* and otherwise the fallback reason is absent.
C3_NonEmptyReasons ==
    \A i \in DOMAIN results :
        HasMatchScore(results[i]) =>
            LET m == results[i]
                reasons == m.matchScore.reasons
            IN  /\ Len(reasons) >= 1
                /\ NoReasonCondition(m) => reasons = <<FallbackReason>>
                /\ ~NoReasonCondition(m) => FallbackReason \notin SetOf(reasons)

\* C3 witness: a returned list with one breakdown that carries only the
\* fallback reason and one that carries specific reasons.
C3_Witness ==
    /\ pc = "resolved"
    /\ \E i \in DOMAIN results :
          /\ HasMatchScore(results[i])
          /\ results[i].matchScore.reasons = <<FallbackReason>>
    /\ \E i \in DOMAIN results :
          /\ HasMatchScore(results[i])
          /\ FallbackReason \notin SetOf(results[i].matchScore.reasons)

\* C4: when getFavoriteGenreIds gave no favorite genre, the list returned
\* is the popular-movies page of the requested page, unmodified and in the
\* same order, with no matchScore attached, and no discovery query was
\* issued.
C4_ColdStart ==
    (pc = "resolved" /\ Len(favoriteGenres) = 0) =>
        /\ results = PopularResults(page)
        /\ \A i \in DOMAIN results : ~HasMatchScore(results[i])
        /\ discoverCalls = 0

\* C4 witness: a request returned on the cold-start path for a page other
\* than the first.
C4_Witness ==
    /\ pc = "resolved"
    /\ path = "coldStart"
    /\ page > 1
    /\ Len(results) > 0

\* C5: if a store call or one of the discovery queries of the request
\* failed, getRecommendations returns exactly the popular-movies page of
\* the requested page and does not propagate the exception (stated for
\* the requests whose popular-movies query has a result).
C5_FallbackOnFailure ==
    (/\ Settled
     /\ failed \cap {"getFavoriteGenreIds", "getAllRatings", "discoverMovies"} # {}
     /\ "getPopularMovies" \notin failed) =>
        /\ pc = "resolved"
        /\ results = PopularResults(page)

\* C6: whatever fails, getRecommendations resolves with a list and never
\* rejects.
C6_NeverRejects == pc # "rejected"

\* C7: with favorite genres and an empty pool of unrated candidates,
\* getRecommendations returns the popular-movies page of the requested
\* page instead of an empty list.
C7_EmptyPoolFallsBack ==
    (pc = "resolved" /\ Len(favoriteGenres) > 0 /\ path = "personalised"
        /\ Len(scoredMovies) = 0) =>
        results = PopularResults(page)

\* number of genre ids the movie shares with the disliked movies of the
\* rating history the request read, each disliked movie counted by itself
SharedWithDisliked(movie) ==
    SumSeq([k \in DOMAIN ratedMovies |->
              IF /\ ratedMovies[k].rating = -1
                 /\ ratedMovies[k].movie_data.has_genre_ids
              THEN Cardinality(SetOf(movie.genre_ids)
                               \cap SetOf(ratedMovies[k].movie_data.genre_ids))
              ELSE 0])

OtherwiseIdentical(a, b) ==
    /\ a.movie.vote_average = b.movie.vote_average
    /\ a.movie.vote_count = b.movie.vote_count
    /\ a.movie.popularity = b.movie.popularity
    /\ a.movie.release_date = b.movie.release_date
    /\ a.rawScoreData.genreMatchCount = b.rawScoreData.genreMatchCount

\* C10: the dislike penalty is 15 points per genre id shared with a
\* disliked movie, summed over every disliked movie of the history: two
\* scored candidates that are otherwise identical differ in raw score by
\* exactly 15 times the difference of these counts (scores are in tenths).
C10_DislikePenalty ==
    \A i, j \in DOMAIN scoredMovies :
        LET a == scoredMovies[i]
            b == scoredMovies[j]
        IN  OtherwiseIdentical(a, b) =>
                b.score - a.score =
                    150 * (SharedWithDisliked(a.movie) - SharedWithDisliked(b.movie))

\* C10 witness: a scored pool with a candidate that shares two genres with
\* one disliked movie and an otherwise identical one that shares none,
\* 30 points apart.
C10_Witness ==
    \E i, j \in DOMAIN scoredMovies :
        LET a == scoredMovies[i]
            b == scoredMovies[j]
        IN  /\ OtherwiseIdentical(a, b)
            /\ SharedWithDisliked(a.movie) = 2
            /\ SharedWithDisliked(b.movie) = 0
            /\ Cardinality({k \in DOMAIN ratedMovies : ratedMovies[k].rating = -1}) = 1
            /\ b.score - a.score = 300

----------------------------------------------------------------------------
(* SpecStore: rating presses on the movie detail screen and the store     *)
(* writes they issue, [id].tsx:77-125 and database.ts:23-42, 103-132      *)

\* the movies whose detail screen is opened
DetailMovies == {M1, M3}

GenreIds == {Action, Horror}

\* a call of databaseService in flight
StoreCall(op, press, step, movie_id, rating, timestamp, movie_data, genre_id, weight) ==
    [op |-> op, press |-> press, step |-> step, movie_id |-> movie_id,
     rating |-> rating, timestamp |-> timestamp, movie_data |-> movie_data,
     genre_id |-> genre_id, weight |-> weight]

\* .upsert(row, { onConflict: 'user_id,movie_id' }), database.ts:29-39
upsertRating(rows, row) ==
    {r \in rows : r.movie_id # row.movie_id} \cup {row}

\* .upsert(row, { onConflict: 'user_id,genre_id' }), database.ts:107-115
upsertPreference(rows, row) ==
    {r \in rows : r.genre_id # row.genre_id} \cup {row}

\* (existing?.weight || 0) + 1, [id].tsx:108-109
newWeightOf(currentPrefs, genre_id) ==
    LET existing == {i \in DOMAIN currentPrefs : currentPrefs[i].genre_id = genre_id}
    IN  IF existing = {} THEN 1
        ELSE currentPrefs[CHOOSE i \in existing : \A j \in existing : i <= j].weight + 1

InitStore ==
    /\ user_ratings = {}
    /\ user_preferences = {}
    /\ page = 1
    /\ RecIdle
    /\ now = 1
    /\ userRating = [m \in {d.id : d \in DetailMovies} |-> 0]
    /\ writes = {}
    /\ tasks = {}
    /\ lastIssued = [m \in {d.id : d \in DetailMovies} |-> 0]
    /\ likesIssued = [g \in GenreIds |-> 0]
    /\ writeFailed = FALSE
    /\ ExtIdle

\* [id].tsx:77-125: a press of the like (1) or dislike (-1) button; the
\* rating is shown at once, rateMovie is called, and for a like the
\* updatePreferences closure is started; nothing is awaited
handleRating(movie, rating) ==
    /\ now <= MaxPresses
    /\ now' = now + 1
    /\ userRating' = [userRating EXCEPT ![movie.id] = rating]
    /\ writes' = writes \cup
          {StoreCall("rateMovie", now, "getUser", movie.id, rating, 0,
                     Snapshot(movie.genre_ids), 0, 0)}
    /\ tasks' = IF rating >= 4 \/ rating = 1
                THEN tasks \cup {[press |-> now, movie |-> movie]}
                ELSE tasks
    /\ lastIssued' = [lastIssued EXCEPT ![movie.id] = rating]
    /\ likesIssued' = IF rating >= 4 \/ rating = 1
                      THEN [g \in GenreIds |->
                              IF Includes(movie.genre_ids, g)
                              THEN likesIssued[g] + 1 ELSE likesIssued[g]]
                      ELSE likesIssued
    /\ UNCHANGED <<user_ratings, user_preferences, writeFailed>>
    /\ UNCHANGED recVars
    /\ UNCHANGED extVars

HandleRating ==
    \E movie \in DetailMovies, rating \in {1, -1} : handleRating(movie, rating)

\* database.ts:24-27: rateMovie gets the user and takes the timestamp, or
\* throws when there is no user
RateMovieGetUser ==
    \E w \in writes :
        /\ w.op = "rateMovie" /\ w.step = "getUser"
        /\ \/ /\ writes' = (writes \ {w}) \cup
                     {[w EXCEPT !.step = "upsert", !.timestamp = now]}
              /\ UNCHANGED writeFailed
           \/ /\ writes' = writes \ {w}
              /\ writeFailed' = TRUE
        /\ UNCHANGED <<user_ratings, user_preferences, now, userRating, tasks,
                       lastIssued, likesIssued>>
        /\ UNCHANGED recVars
        /\ UNCHANGED extVars

\* database.ts:29-41: the upsert of rateMovie reaches the store, or fails
RateMovieUpsert ==
    \E w \in writes :
        /\ w.op = "rateMovie" /\ w.step = "upsert"
        /\ writes' = writes \ {w}
        /\ \/ /\ user_ratings' = upsertRating(user_ratings,
                     Rating(w.movie_id, w.rating, w.timestamp, w.movie_data))
              /\ UNCHANGED writeFailed
           \/ /\ writeFailed' = TRUE
              /\ UNCHANGED user_ratings
        /\ UNCHANGED <<user_preferences, now, userRating, tasks, lastIssued,
                       likesIssued>>
        /\ UNCHANGED recVars
        /\ UNCHANGED extVars

\* [id].tsx:102-112 with database.ts:120-132: updatePreferences reads the
\* preferences (an error of the query reads as no preferences) and calls
\* updateGenrePreference for every genre of the movie, or the read throws
UpdatePreferencesRead ==
    \E t \in tasks, outcome \in StoreOutcomes :
        /\ tasks' = tasks \ {t}
        /\ LET currentPrefs == IF outcome = "ok"
                               THEN getGenrePreferences(user_preferences)
                               ELSE <<>>
           IN  writes' = IF outcome = "throw" THEN writes
                         ELSE writes \cup
                              {StoreCall("updateGenrePreference", t.press, "upsert",
                                         0, 0, 0, NoData, t.movie.genre_ids[i],
                                         newWeightOf(currentPrefs, t.movie.genre_ids[i])) :
                                 i \in DOMAIN t.movie.genre_ids}
        /\ writeFailed' = (writeFailed \/ outcome # "ok")
        /\ UNCHANGED <<user_ratings, user_preferences, now, userRating,
                       lastIssued, likesIssued>>
        /\ UNCHANGED recVars
        /\ UNCHANGED extVars

\* database.ts:103-118: an updateGenrePreference call reaches the store,
\* or fails
UpdateGenrePreference ==
    \E w \in writes :
        /\ w.op = "updateGenrePreference"
        /\ writes' = writes \ {w}
        /\ \/ /\ user_preferences' = upsertPreference(user_preferences,
                     Preference(w.genre_id, w.weight))
              /\ UNCHANGED writeFailed
           \/ /\ writeFailed' = TRUE
              /\ UNCHANGED user_preferences
        /\ UNCHANGED <<user_ratings, now, userRating, tasks, lastIssued,
                       likesIssued>>
        /\ UNCHANGED recVars
        /\ UNCHANGED extVars

NextStore ==
    \/ HandleRating
    \/ RateMovieGetUser
    \/ RateMovieUpsert
    \/ UpdatePreferencesRead
    \/ UpdateGenrePreference

SpecStore == InitStore /\ [][NextStore]_vars

----------------------------------------------------------------------------
(* Properties of the rating presses (SpecStore) *)

\* no store call of a rating press is in flight
Quiescent == writes = {} /\ tasks = {}

\* stored weight of a genre, 0 when there is no row
WeightOf(rows, g) ==
    IF \E r \in rows : r.genre_id = g
    THEN (CHOOSE r \in rows : r.genre_id = g).weight
    ELSE 0

\* C8: the store holds at most one Rating per movie, and once all writes
\* have completed (none of them failed) its value is the value of the most
\* recently issued rating action for that movie.
C8_OneRatingLatestValue ==
    /\ \A m \in DOMAIN lastIssued :
          Cardinality({r \in user_ratings : r.movie_id = m}) <= 1
    /\ (Quiescent /\ ~writeFailed) =>
          \A m \in DOMAIN lastIssued :
              lastIssued[m] # 0 =>
                  \E r \in user_ratings :
                      r.movie_id = m /\ r.rating = lastIssued[m]

\* C9: the stored weight of a genre never decreases, and once all updates
\* have completed (none of them failed) it has increased by exactly 1 per
\* like touching the genre.
C9_MonotonicWeight ==
    /\ [][~writeFailed' =>
            \A g \in GenreIds :
                WeightOf(user_preferences', g) >= WeightOf(user_preferences, g)]_vars
    /\ []((Quiescent /\ ~writeFailed) =>
            \A g \in GenreIds : WeightOf(user_preferences, g) = likesIssued[g])

----------------------------------------------------------------------------
(* SpecScore: calculateMovieScore and createMatchBreakdown applied to two  *)
(* candidates that differ in their genre ids only                          *)

\* ages on both sides of every boundary of the age bonus
CandidateAges == {0, 5, 6, 10, 11, 39, 40, 41}

\* 0 is the missing release date
ReleaseDates == {0} \cup {CurrentYear - a : a \in CandidateAges}

GenreLists ==
    { <<>>, <<Comedy>>, <<Action>>, <<Action, Horror>>, <<Drama, Action, Horror>> }

FavoriteLists == { <<Drama>>, <<Action, Drama>>, <<Horror, Action>> }

\* n liked ratings, movies 11 to 10 + n
Likes(n) == [i \in 1..n |-> Rating(10 + i, 1, 10 + i, SwipeSnapshot)]

\* rating histories with 0, 1, 5 and 6 likes: the threshold of
\* recommendations.ts:374 lies between the last two
ScoreHistories ==
    { <<>>,
      <<Rating(9, -1, 1, Snapshot(<<Action, Horror>>))>>,
      <<Rating(7, 1, 3, SwipeSnapshot),
        Rating(8, -1, 2, Snapshot(<<Action>>)),
        Rating(9, -1, 1, Snapshot(<<Action, Horror>>))>>,
      Likes(5) \o <<Rating(9, -1, 1, Snapshot(<<Comedy>>))>>,
      Likes(6) }

\* percentages handed to createMatchBreakdown: 50 and 74.5
Percentages == {Ratio(50, 1), Ratio(149, 2)}

InitScore ==
    /\ \E va \in {0, 74, 75}, votes \in {<<0, 0>>, <<5000, 100>>},
          date \in ReleaseDates, ga \in GenreLists, gb \in GenreLists :
          candidates = << Movie(1, ga, va, votes[1], votes[2], date),
                          Movie(2, gb, va, votes[1], votes[2], date) >>
    /\ favoriteGenres \in FavoriteLists
    /\ ratedMovies \in ScoreHistories
    /\ totalLiked = Len(likedMoviesOf(ratedMovies))
    /\ fnPc = "input"
    /\ scoreDatas = <<>>
    /\ breakdowns = <<>>
    /\ pool = <<>>
    /\ uniquePool = <<>>
    /\ unratedPool = <<>>
    /\ user_ratings = {}
    /\ user_preferences = {}
    /\ page = 1
    /\ pc = "idle"
    /\ genreMoviesPromises = <<>>
    /\ scoredMovies = <<>>
    /\ results = <<>>
    /\ path = "none"
    /\ discoverCalls = 0
    /\ popularCalls = 0
    /\ failed = {}
    /\ UiIdle
    /\ MoreIdle
    /\ ProfileIdle
    /\ HomeIdle

\* recommendations.ts:113-120: every candidate is scored
CalculateScores ==
    /\ fnPc = "input"
    /\ candidates # <<>>
    /\ scoreDatas' = [i \in DOMAIN candidates |->
                        calculateMovieScore(candidates[i], favoriteGenres, ratedMovies)]
    /\ fnPc' = "scored"
    /\ UNCHANGED <<candidates, totalLiked, breakdowns, pool, uniquePool, unratedPool>>
    /\ UNCHANGED <<storeVars, recVars, uiVars, moreVars, profileVars, homeVars>>

\* recommendations.ts:155-161: the breakdown of every candidate
CreateBreakdowns ==
    /\ fnPc = "scored"
    /\ \E percentage \in Percentages :
          breakdowns' = [i \in DOMAIN candidates |->
                           createMatchBreakdown(candidates[i], percentage,
                               scoreDatas[i], favoriteGenres, totalLiked)]
    /\ fnPc' = "done"
    /\ UNCHANGED <<candidates, totalLiked, scoreDatas, pool, uniquePool, unratedPool>>
    /\ UNCHANGED <<storeVars, recVars, uiVars, moreVars, profileVars, homeVars>>

NextScore ==
    \/ CalculateScores
    \/ CreateBreakdowns

SpecScore == InitScore /\ [][NextScore]_vars

----------------------------------------------------------------------------
(* Properties of the scorer and the explanation generator (SpecScore) *)

\* number of the candidate's genre ids that are favorite genres
FavoriteMatches(movie) ==
    Cardinality({i \in DOMAIN movie.genre_ids :
                    movie.genre_ids[i] \in SetOf(favoriteGenres)})

\* C11: the genre term is 100 points per genre id in the favorite-genre
\* list: two candidates equal in quality, vote count, popularity, release
\* year and overlap with disliked movies that differ by k genre matches
\* have raw scores that differ by exactly 100 * k (scores are in tenths).
C11_GenreTerm ==
    fnPc # "input" =>
        \A i, j \in DOMAIN scoreDatas :
            LET a == candidates[i]
                b == candidates[j]
            IN  (/\ a.vote_average = b.vote_average
                 /\ a.vote_count = b.vote_count
                 /\ a.popularity = b.popularity
                 /\ a.release_date = b.release_date
                 /\ SharedWithDisliked(a) = SharedWithDisliked(b)) =>
                    scoreDatas[i].score - scoreDatas[j].score =
                        1000 * (FavoriteMatches(a) - FavoriteMatches(b))

\* C11 witness: two scored candidates with the same overlap with disliked
\* movies, one with two genre matches and one with none, 200 points apart.
C11_Witness ==
    /\ fnPc = "scored"
    /\ FavoriteMatches(candidates[1]) = 2
    /\ FavoriteMatches(candidates[2]) = 0
    /\ SharedWithDisliked(candidates[1]) = SharedWithDisliked(candidates[2])
    /\ scoreDatas[1].score - scoreDatas[2].score = 2000

\* the category and the bonus (in tenths) the age rule gives an age
AgeRule(age) ==
    IF age > 40 THEN [category |-> "Classic", bonus |-> 200]
    ELSE IF age > 10 THEN [category |-> "Modern Classic", bonus |-> 150]
    ELSE IF age > 5 THEN [category |-> "Recent Hit", bonus |-> 100]
    ELSE [category |-> "Recent", bonus |-> 0]

\* the part of the raw score that is not the age bonus
ScoreWithoutAge(movie) ==
    1000 * FavoriteMatches(movie) + 15 * movie.vote_average
    + voteCountScore(movie) + popularityScore(movie)
    - 150 * SharedWithDisliked(movie)

\* C14: for every candidate with a release date, age > 40 gives bonus 20
\* and 'Classic', 10 < age <= 40 gives 15 and 'Modern Classic',
\* 5 < age <= 10 gives 10 and 'Recent Hit', age <= 5 gives 0 and 'Recent',
\* at the boundary ages 5, 10 and 40 too.
C14_AgeCategories ==
    fnPc # "input" =>
        \A i \in DOMAIN scoreDatas :
            candidates[i].release_date # 0 =>
                LET rule == AgeRule(CurrentYear - candidates[i].release_date)
                IN  /\ scoreDatas[i].ageCategory = rule.category
                    /\ scoreDatas[i].score - ScoreWithoutAge(candidates[i]) = rule.bonus
                    /\ scoreDatas[i].ageCategory \in
                          {"Classic", "Modern Classic", "Recent Hit", "Recent"}

\* place of a reason in the priority order, 0 for the fallback reason
ReasonRank(reason) ==
    CASE reason.kind = "Matches of your favorite genres" -> 1
      [] reason.kind = "Highly rated" -> 2
      [] reason.kind = "film" -> 3
      [] reason.kind = "Strong genre alignment with your taste" -> 4
      [] OTHER -> 0

HasReason(breakdown, rank) ==
    \E k \in DOMAIN breakdown.reasons : ReasonRank(breakdown.reasons[k]) = rank

\* C20: the reasons appear in the priority order genre match, highly
\* rated, age category, strong genre alignment, none twice; the genre
\* reason is present iff the genre match count is positive, the highly
\* rated reason iff the quality score is at least 7.5, the age reason iff
\* the category is not 'Recent'.
C20_ReasonOrder ==
    fnPc = "done" =>
        \A i \in DOMAIN breakdowns :
            LET b == breakdowns[i]
            IN  /\ \A k, l \in DOMAIN b.reasons :
                      k < l => ReasonRank(b.reasons[k]) < ReasonRank(b.reasons[l])
                /\ HasReason(b, 1) <=> b.genreMatches > 0
                /\ HasReason(b, 2) <=> candidates[i].vote_average >= 75
                /\ HasReason(b, 3) <=> b.ageCategory # "Recent"

\* C20 witness: a breakdown that carries all four reasons.
C20_Witness ==
    /\ fnPc = "done"
    /\ \E i \in DOMAIN breakdowns :
          /\ Len(breakdowns[i].reasons) = 4
          /\ \A rank \in 1..4 : HasReason(breakdowns[i], rank)

\* number of liked ratings in the rating history
LikedInHistory ==
    Cardinality({i \in DOMAIN ratedMovies : ratedMovies[i].rating = 1})

\* C21 as stated: the 'Strong genre alignment' reason is in a breakdown
\* exactly when the user has rated more than 5 movies, likes and dislikes
\* both counting, and the candidate has at least 2 genre matches.
C21_StrongAlignmentRated ==
    fnPc = "done" =>
        \A i \in DOMAIN breakdowns :
            HasReason(breakdowns[i], 4) <=>
                (Len(ratedMovies) > 5 /\ FavoriteMatches(candidates[i]) >= 2)

\* C21, amended: the 'Strong genre alignment' reason is in a breakdown
\* exactly when the user has liked more than 5 movies and the candidate
\* has at least 2 genre matches.
C21_StrongAlignmentLiked ==
    fnPc = "done" =>
        \A i \in DOMAIN breakdowns :
            HasReason(breakdowns[i], 4) <=>
                (LikedInHistory > 5 /\ FavoriteMatches(candidates[i]) >= 2)

\* C21 witness: with 6 ratings of which 5 are likes a candidate with two
\* genre matches has no strong alignment reason, and with 6 likes it has.
C21_Witness ==
    /\ fnPc = "done"
    /\ FavoriteMatches(candidates[1]) >= 2
    /\ \/ Len(ratedMovies) = 6 /\ LikedInHistory = 5 /\ ~HasReason(breakdowns[1], 4)
       \/ LikedInHistory = 6 /\ HasReason(breakdowns[1], 4)

\* C30: a candidate without a release date is scored with release year 0,
\* its age is the current year, and it gets the 'Classic' category and the
\* +20 age bonus.
C30_MissingDateIsClassic ==
    fnPc # "input" =>
        \A i \in DOMAIN scoreDatas :
            candidates[i].release_date = 0 =>
                /\ releaseYear(candidates[i]) = 0
                /\ movieAge(candidates[i]) = CurrentYear
                /\ scoreDatas[i].ageCategory = "Classic"
                /\ scoreDatas[i].score - ScoreWithoutAge(candidates[i]) = 200

\* C30 witness: a scored candidate without a release date.
C30_Witness ==
    /\ fnPc = "scored"
    /\ candidates[1].release_date = 0
    /\ scoreDatas[1].ageCategory = "Classic"

----------------------------------------------------------------------------
(* SpecSelect: the sort, the page window and the normalisation applied to *)
(* pools of scored candidates                                              *)

MaxPool == 36
MaxSelPage == 6

\* a scored candidate as recommendations.ts:113-120 builds it
ScoredItem(id, score) ==
    [movie |-> Movie(id, <<>>, 70, 100, 10, CurrentYear - 6),
     score |-> score,
     rawScoreData |-> [score |-> score, genreMatchCount |-> 0,
                       ageCategory |-> "Recent Hit", qualityScore |-> 1050]]

\* scores a fifth apart, so that no comparison of two of them falls in
\* the random band of the comparator
RECURSIVE SeparatedScore(_)
SeparatedScore(k) ==
    IF k <= 1 THEN 40 ELSE (SeparatedScore(k - 1) * 5) \div 4 + 1

\* a pool of n candidates in ascending score order
SeparatedPool(n) == [i \in 1..n |-> ScoredItem(i, SeparatedScore(i))]

\* candidates with scores 85, 92, 100 and 200
CloseItems ==
    { ScoredItem(1, 850), ScoredItem(2, 920), ScoredItem(3, 1000),
      ScoredItem(4, 2000) }

\* the pools of at most three of them, in every order
ClosePools ==
    { q \in UNION {[1..n -> CloseItems] : n \in 1..3} :
        \A i, j \in DOMAIN q : i # j => q[i].movie.id # q[j].movie.id }

Pools == {SeparatedPool(n) : n \in 0..MaxPool} \cup ClosePools

InitSelect ==
    /\ pool \in Pools
    /\ page \in 1..MaxSelPage
    /\ favoriteGenres = <<Action>>
    /\ ratedMovies = <<>>
    /\ fnPc = "input"
    /\ scoredMovies = <<>>
    /\ results = <<>>
    /\ candidates = <<>>
    /\ totalLiked = 0
    /\ scoreDatas = <<>>
    /\ breakdowns = <<>>
    /\ uniquePool = <<>>
    /\ unratedPool = <<>>
    /\ user_ratings = {}
    /\ user_preferences = {}
    /\ pc = "idle"
    /\ genreMoviesPromises = <<>>
    /\ path = "none"
    /\ discoverCalls = 0
    /\ popularCalls = 0
    /\ failed = {}
    /\ UiIdle
    /\ MoreIdle
    /\ ProfileIdle
    /\ HomeIdle

\* recommendations.ts:123-130
SortScored ==
    /\ fnPc = "input"
    /\ candidates = <<>>
    /\ \E sorted \in SortOutcomes(pool) : scoredMovies' = sorted
    /\ fnPc' = "sorted"
    /\ UNCHANGED <<user_ratings, user_preferences, page, pc, favoriteGenres,
                   ratedMovies, genreMoviesPromises, results, path,
                   discoverCalls, popularCalls, failed>>
    /\ UNCHANGED <<candidates, totalLiked, scoreDatas, breakdowns, pool,
                   uniquePool, unratedPool>>
    /\ UNCHANGED <<uiVars, moreVars, profileVars, homeVars>>

\* recommendations.ts:133-167
SelectAndNormalize ==
    /\ fnPc = "sorted"
    /\ results' = resultsOf(scoredMovies, page, favoriteGenres, ratedMovies)
    /\ fnPc' = "selected"
    /\ UNCHANGED <<user_ratings, user_preferences, page, pc, favoriteGenres,
                   ratedMovies, genreMoviesPromises, scoredMovies, path,
                   discoverCalls, popularCalls, failed>>
    /\ UNCHANGED <<candidates, totalLiked, scoreDatas, breakdowns, pool,
                   uniquePool, unratedPool>>
    /\ UNCHANGED <<uiVars, moreVars, profileVars, homeVars>>

NextSelect ==
    \/ SortScored
    \/ SelectAndNormalize

SpecSelect == InitSelect /\ [][NextSelect]_vars

----------------------------------------------------------------------------
(* Properties of the sort, the window and the normalisation (SpecSelect) *)

\* the ranked candidate a returned movie comes from
RankedOf(result) ==
    CHOOSE i \in DOMAIN scoredMovies : scoredMovies[i].movie.id = result.id

ScoreOfResult(result) == scoredMovies[RankedOf(result)].score

\* min-max scaling of a score between lo and hi, a zero range replaced by
\* 1, clamped to [50, 99] and rounded as the breakdown rounds it
ScaledPercentage(score, lo, hi) ==
    LET range == IF hi - lo # 0 THEN hi - lo ELSE 10
        x == Ratio((score - lo) * 100, range)
        capped == IF x.num > 99 * x.den THEN Ratio(99, 1) ELSE x
        clamped == IF capped.num < 50 * capped.den THEN Ratio(50, 1) ELSE capped
    IN  MathRound(clamped)

\* the largest and the smallest raw score of the returned page
BatchMax == CHOOSE x \in {ScoreOfResult(results[i]) : i \in DOMAIN results} :
                \A i \in DOMAIN results : ScoreOfResult(results[i]) <= x
BatchMin == CHOOSE x \in {ScoreOfResult(results[i]) : i \in DOMAIN results} :
                \A i \in DOMAIN results : ScoreOfResult(results[i]) >= x

FirstRankedScore ==
    IF scoredMovies[1].score # 0 THEN scoredMovies[1].score ELSE 10
LastRankedScore == scoredMovies[Len(scoredMovies)].score

TopScore == CHOOSE x \in {pool[i].score : i \in DOMAIN pool} :
                \A i \in DOMAIN pool : pool[i].score <= x

\* C17: in the ranking a candidate whose score exceeds another's by at
\* least 10% of the top score of the pool always precedes it; random order
\* occurs only between candidates closer than that.
C17_CoarseRanking ==
    fnPc # "input" =>
        \A i, j \in DOMAIN scoredMovies :
            i < j => 10 * (scoredMovies[j].score - scoredMovies[i].score) < TopScore

\* start of the page window for pages 1, 2, 3, repeating every three pages
WindowOffset(p) == CASE p % 3 = 1 -> 0 [] p % 3 = 2 -> 7 [] OTHER -> 14

\* C18: the returned page has at most 20 items and consists of the ranked
\* candidates from offset ((page - 1) mod 3) * 7 on: offsets 0, 7, 14 for
\* pages 1, 2, 3, and page p + 3 starts where page p starts.
C18_WindowOffset ==
    fnPc = "selected" =>
        /\ Len(results) <= 20
        /\ Len(results) = Min(20, IF Len(scoredMovies) > WindowOffset(page)
                                  THEN Len(scoredMovies) - WindowOffset(page)
                                  ELSE 0)
        /\ \A k \in DOMAIN results :
              results[k].id = scoredMovies[WindowOffset(page) + k].movie.id

\* C18 witness: a full page 5 that starts at the eighth ranked candidate.
C18_Witness ==
    /\ fnPc = "selected"
    /\ page = 5
    /\ Len(results) = 20
    /\ results[1].id = scoredMovies[8].movie.id

\* ranked candidates after the end of the window
AfterWindow ==
    IF Len(scoredMovies) > WindowOffset(page) + 20
    THEN SubSeq(scoredMovies, WindowOffset(page) + 21, Len(scoredMovies))
    ELSE <<>>

\* ranked candidates inside the window
InWindow ==
    SubSeq(scoredMovies, WindowOffset(page) + 1,
           Min(Len(scoredMovies), WindowOffset(page) + 20))

\* C19: a window slice of fewer than 20 candidates is followed by the
\* candidates ranked after the window's end, in rank order, until the page
\* has 20 items or none remain; a page has fewer than 20 items only when
\* no candidate is ranked after the window's end; no candidate is twice
\* in the page.
C19_Padding ==
    fnPc = "selected" =>
        /\ LET shortage == 20 - Len(InWindow)
               padding == SubSeq(AfterWindow, 1, Min(shortage, Len(AfterWindow)))
           IN  [k \in DOMAIN results |-> results[k].id] =
               [k \in 1..(Len(InWindow) + Len(padding)) |->
                   (InWindow \o padding)[k].movie.id]
        /\ Len(results) < 20 => AfterWindow = <<>>
        /\ \A k, l \in DOMAIN results : k # l => results[k].id # results[l].id

\* C19 witness: a page of the third window that is short although the
\* ranked pool holds more than 20 candidates.
C19_Witness ==
    /\ fnPc = "selected"
    /\ WindowOffset(page) = 14
    /\ Len(scoredMovies) > 20
    /\ Len(results) \in 1..19

\* C27: within one response the percentage is monotone non-decreasing in
\* the raw score: of two returned candidates the one with the higher raw
\* score never has the lower percentage, for every ranking the sort can
\* produce.
C27_MonotonePercentage ==
    fnPc = "selected" =>
        \A i, j \in DOMAIN results :
            ScoreOfResult(results[i]) > ScoreOfResult(results[j]) =>
                results[i].matchScore.percentage >= results[j].matchScore.percentage

----------------------------------------------------------------------------
(* SpecMerge: the merge of the discovery results, recommendations.ts:93-104 *)

\* the records of movies 1 and 2 as a later query returns them, with
\* another popularity and vote average
M1Later == Movie(1, <<Action, Horror>>, 81, 5100, 900, 2024)
M2Later == Movie(2, <<Comedy>>, 79, 5000, 40, 2024)

MergePages == { <<>>, <<M1, M2>>, <<M2Later, M3>>, <<M3, M1Later, M4>> }

MaxQueries == 3

\* an issued discovery query, recommendations.ts:62-70
IssuedQuery == Query(Action, 1, "popularity.desc", 100, 55, 0)

\* the query answered with the given page
Fulfilled(resultPage) ==
    [IssuedQuery EXCEPT !.status = "fulfilled", !.results = resultPage]

\* the results taken in the order the responses arrived
ResultsAsArrived(promises, order) ==
    [k \in DOMAIN order |-> promises[order[k]]]

\* recommendations.ts:93, Promise.all: the results in the order of the
\* promises handed in, whatever the order they were fulfilled in
genreMoviesResultsOf(promises, order) ==
    [i \in DOMAIN promises |-> promises[i]]

MergeHistories ==
    { <<>>,
      <<Rating(2, -1, 1, Snapshot(<<Comedy>>))>>,
      <<Rating(3, 1, 2, Snapshot(<<Action>>)),
        Rating(9, -1, 1, Snapshot(<<Action, Horror>>))>> }

InitMerge ==
    /\ \E n \in 1..MaxQueries :
          /\ genreMoviesPromises = [i \in 1..n |-> IssuedQuery]
          /\ responses \in [1..n -> MergePages]
    /\ arrivals = <<>>
    /\ ratedMovies \in MergeHistories
    /\ favoriteGenres = <<Action>>
    /\ page = 1
    /\ fnPc = "input"
    /\ uniquePool = <<>>
    /\ unratedPool = <<>>
    /\ pool = <<>>
    /\ candidates = <<>>
    /\ totalLiked = 0
    /\ scoreDatas = <<>>
    /\ breakdowns = <<>>
    /\ scoredMovies = <<>>
    /\ results = <<>>
    /\ user_ratings = {}
    /\ user_preferences = {}
    /\ pc = "idle"
    /\ path = "none"
    /\ discoverCalls = 0
    /\ popularCalls = 0
    /\ failed = {}
    /\ UiIdle
    /\ TasteIdle
    /\ WatchIdle
    /\ SearchIdle
    /\ ChatIdle
    /\ ProfileIdle
    /\ HomeIdle

\* tmdb.ts:49-76: the response to one of the queries awaited together
DiscoverResponds(i) ==
    /\ fnPc = "input"
    /\ i \in DOMAIN genreMoviesPromises
    /\ genreMoviesPromises[i].status = "pending"
    /\ genreMoviesPromises' =
          [genreMoviesPromises EXCEPT ![i] = Fulfilled(responses[i])]
    /\ arrivals' = Append(arrivals, i)
    /\ UNCHANGED responses
    /\ UNCHANGED <<user_ratings, user_preferences, pc, page, favoriteGenres,
                   ratedMovies, scoredMovies, results, path, discoverCalls,
                   popularCalls, failed>>
    /\ UNCHANGED <<fnVars, uiVars, profileVars, homeVars, tasteVars,
                   watchVars, searchVars, chatVars>>

\* recommendations.ts:93-99
Deduplicate ==
    /\ fnPc = "input"
    /\ \A i \in DOMAIN genreMoviesPromises :
          genreMoviesPromises[i].status = "fulfilled"
    /\ uniquePool' = uniqueMoviesOf(FlatMapResults(
                         genreMoviesResultsOf(genreMoviesPromises, arrivals)))
    /\ fnPc' = "unique"
    /\ UNCHANGED <<candidates, totalLiked, scoreDatas, breakdowns, pool, unratedPool>>
    /\ UNCHANGED <<storeVars, recVars, uiVars, moreVars, profileVars, homeVars>>

\* recommendations.ts:102-104
FilterRated ==
    /\ fnPc = "unique"
    /\ unratedPool' = unratedMoviesOf(uniquePool, ratedMovies)
    /\ fnPc' = "unrated"
    /\ UNCHANGED <<candidates, totalLiked, scoreDatas, breakdowns, pool, uniquePool>>
    /\ UNCHANGED <<storeVars, recVars, uiVars, moreVars, profileVars, homeVars>>

NextMerge ==
    \/ \E i \in 1..MaxQueries : DiscoverResponds(i)
    \/ Deduplicate
    \/ FilterRated

SpecMerge == InitMerge /\ [][NextMerge]_vars

----------------------------------------------------------------------------
(* Properties of the merge (SpecMerge) *)

\* the merged results in merged order
AllMovies == FlatMapResults(genreMoviesPromises)

FirstOccurrence(id) ==
    CHOOSE i \in DOMAIN AllMovies :
        AllMovies[i].id = id /\ \A j \in 1..(i - 1) : AllMovies[j].id # id

LastOccurrence(id) ==
    CHOOSE i \in DOMAIN AllMovies :
        AllMovies[i].id = id /\ \A j \in (i + 1)..Len(AllMovies) : AllMovies[j].id # id

\* every merged id is in the pool once, the pool is in the order of the
\* first occurrences, and the rated movies and only they are removed
MergedOnceThenFiltered ==
    /\ {uniquePool[k].id : k \in DOMAIN uniquePool} =
          {AllMovies[i].id : i \in DOMAIN AllMovies}
    /\ \A k, l \in DOMAIN uniquePool :
          k < l => FirstOccurrence(uniquePool[k].id) < FirstOccurrence(uniquePool[l].id)
    /\ fnPc = "unrated" =>
          unratedPool = SelectSeq(uniquePool,
              LAMBDA movie : \A i \in DOMAIN ratedMovies :
                                ratedMovies[i].movie_id # movie.id)

\* C15 as stated: the merged pool contains each id at most once, the
\* retained entry is the first occurrence in merged order, and the rated
\* movies are then removed.
C15_FirstOccurrenceWins ==
    fnPc # "input" =>
        /\ MergedOnceThenFiltered
        /\ \A k \in DOMAIN uniquePool :
              uniquePool[k] = AllMovies[FirstOccurrence(uniquePool[k].id)]

\* C15, amended: the merged pool contains each id at most once, at the
\* place of its first occurrence in merged order, the retained entry is
\* the last occurrence, and the rated movies are then removed.
C15_LastOccurrenceWins ==
    fnPc # "input" =>
        /\ MergedOnceThenFiltered
        /\ \A k \in DOMAIN uniquePool :
              uniquePool[k] = AllMovies[LastOccurrence(uniquePool[k].id)]

\* C15 witness: an id that occurs twice with different entries is in the
\* pool with the later entry, ahead of an id that occurs first after it,
\* and a rated movie has been removed.
C15_Witness ==
    /\ fnPc = "unrated"
    /\ Len(unratedPool) < Len(uniquePool)
    /\ \E k \in DOMAIN unratedPool :
          /\ unratedPool[k] # AllMovies[FirstOccurrence(unratedPool[k].id)]
          /\ unratedPool[k] = AllMovies[LastOccurrence(unratedPool[k].id)]
          /\ k < Len(unratedPool)

----------------------------------------------------------------------------
(* SpecHome: the home screen from its mount on, index.tsx:17-50 *)

MaxRatings == 12
MaxLoads == 2

\* index.tsx:28, the argument of hasEnoughRatings
OnboardingMinimum == 10

\* what the auth and count queries of hasEnoughRatings can do
CountOutcomes == {"ok", "nouser", "error", "throw"}

\* the default threshold of database.ts:150 used whatever the argument
HasEnoughDefault(rows, minRatings, outcome) ==
    IF outcome = "nouser" THEN FALSE
    ELSE IF outcome = "error" THEN FALSE
    ELSE Cardinality(rows) >= 5

\* database.ts:150-161, for the outcomes that return
hasEnoughRatings(rows, minRatings, outcome) ==
    IF outcome = "nouser" THEN FALSE
    ELSE IF outcome = "error" THEN FALSE
    ELSE Cardinality(rows) >= minRatings

\* lists getRecommendations can resolve with
HomeLists == { <<>>, <<M1, M2>>, <<M4, M5, M1>> }

InitHome ==
    /\ \E n \in 0..MaxRatings :
          user_ratings = {Rating(i, 1, i, NoData) : i \in 1..n}
    /\ user_preferences = {}
    /\ homePc = "timer"
    /\ hasEnough = "none"
    /\ movies = <<>>
    /\ loading = TRUE
    /\ error = FALSE
    /\ recCalls = 0
    /\ page = 1
    /\ RecIdle
    /\ UiIdle
    /\ MoreIdle
    /\ FnIdle
    /\ ProfileIdle

\* index.tsx:23, the cleanup of the effect clears the timer
Unmount ==
    /\ homePc = "timer"
    /\ homePc' = "unmounted"
    /\ UNCHANGED <<hasEnough, movies, loading, error, recCalls>>
    /\ UNCHANGED <<storeVars, recVars, uiVars, moreVars, fnVars, profileVars>>

\* index.tsx:19-21 and 26-28: the timer fires, checkOnboarding awaits
\* hasEnoughRatings(10)
CheckOnboarding ==
    /\ homePc = "timer"
    /\ homePc' = "checking"
    /\ UNCHANGED <<hasEnough, movies, loading, error, recCalls>>
    /\ UNCHANGED <<storeVars, recVars, uiVars, moreVars, fnVars, profileVars>>

\* index.tsx:36-42, loadMovies up to its await
StartLoadMovies ==
    /\ loading' = TRUE
    /\ error' = FALSE
    /\ \E randomPage \in 1..5 : page' = randomPage
    /\ recCalls' = recCalls + 1
    /\ homePc' = "loadMovies"
    /\ UNCHANGED movies

\* index.tsx:28-33 with database.ts:150-161
HasEnoughRatingsSettles ==
    /\ homePc = "checking"
    /\ \E outcome \in CountOutcomes :
          IF outcome = "throw"
          THEN /\ homePc' = "checkRejected"
               /\ UNCHANGED <<hasEnough, movies, loading, error, recCalls, page>>
          ELSE IF ~hasEnoughRatings(user_ratings, OnboardingMinimum, outcome)
          THEN /\ hasEnough' = "false"
               /\ homePc' = "onboarding"
               /\ UNCHANGED <<movies, loading, error, recCalls, page>>
          ELSE /\ hasEnough' = "true"
               /\ StartLoadMovies
    /\ UNCHANGED <<user_ratings, user_preferences, pc, favoriteGenres,
                   ratedMovies, genreMoviesPromises, scoredMovies, results,
                   path, discoverCalls, popularCalls, failed>>
    /\ UNCHANGED <<uiVars, moreVars, fnVars, profileVars>>

\* index.tsx:42-43 and 47-49
RecommendationsResolve ==
    /\ homePc = "loadMovies"
    /\ \E list \in HomeLists : movies' = list
    /\ loading' = FALSE
    /\ homePc' = "shown"
    /\ UNCHANGED <<hasEnough, error, recCalls>>
    /\ UNCHANGED <<storeVars, recVars, uiVars, moreVars, fnVars, profileVars>>

\* index.tsx:44-49
RecommendationsReject ==
    /\ homePc = "loadMovies"
    /\ error' = TRUE
    /\ loading' = FALSE
    /\ homePc' = "failed"
    /\ UNCHANGED <<hasEnough, movies, recCalls>>
    /\ UNCHANGED <<storeVars, recVars, uiVars, moreVars, fnVars, profileVars>>

\* index.tsx:103-108, the Refresh button of the rendered list
Refresh ==
    /\ homePc = "shown"
    /\ ~loading
    /\ ~error
    /\ recCalls < MaxLoads
    /\ StartLoadMovies
    /\ UNCHANGED hasEnough
    /\ UNCHANGED <<user_ratings, user_preferences, pc, favoriteGenres,
                   ratedMovies, genreMoviesPromises, scoredMovies, results,
                   path, discoverCalls, popularCalls, failed>>
    /\ UNCHANGED <<uiVars, moreVars, fnVars, profileVars>>

NextHome ==
    \/ Unmount
    \/ CheckOnboarding
    \/ HasEnoughRatingsSettles
    \/ RecommendationsResolve
    \/ RecommendationsReject
    \/ Refresh

SpecHome == InitHome /\ [][NextHome]_vars

----------------------------------------------------------------------------
(* Properties of the home screen (SpecHome) *)

C12_WitnessLoaded ==
    /\ homePc = "shown"
    /\ Cardinality(user_ratings) = 10
    /\ recCalls = 1

----------------------------------------------------------------------------
(* SpecProfile: the Clear press of the profile screen with clearAllData, *)
(* removeFromWatchlist and deleteRating                                   *)

ClearTables == {"user_ratings", "user_preferences", "watchlist"}

\* a row of table watchlist, database.ts:198-203
WatchlistEntry(movie_id, timestamp) ==
    [movie_id |-> movie_id, timestamp |-> timestamp]

ProfileHistories ==
    { {},
      {Rating(1, 1, 1, Snapshot(<<Action, Horror>>))},
      {Rating(1, 1, 1, Snapshot(<<Action, Horror>>)),
       Rating(2, -1, 2, Snapshot(<<Comedy>>))} }

Watchlists ==
    { {}, {WatchlistEntry(3, 1)}, {WatchlistEntry(3, 1), WatchlistEntry(4, 2)} }

InitProfile ==
    /\ user_ratings \in ProfileHistories
    /\ user_preferences \in PreferenceStates
    /\ watchlist \in Watchlists
    /\ clearPc = "idle"
    /\ deletes = {}
    /\ deleteFailed = FALSE
    /\ page = 1
    /\ RecIdle
    /\ UiIdle
    /\ MoreIdle
    /\ FnIdle
    /\ HomeIdle

\* profile.tsx:38-48, the Clear button of the alert
PressClear ==
    /\ clearPc = "idle"
    /\ clearPc' = "getUser"
    /\ UNCHANGED <<watchlist, deletes, deleteFailed>>
    /\ UNCHANGED <<storeVars, recVars, uiVars, moreVars, fnVars, homeVars>>

\* database.ts:177-184: getUser, then the three delete queries are issued
ClearGetUser ==
    /\ clearPc = "getUser"
    /\ \E authenticated \in BOOLEAN :
          IF authenticated
          THEN /\ deletes' = ClearTables
               /\ clearPc' = "deleting"
          ELSE /\ clearPc' = "rejected"
               /\ UNCHANGED deletes
    /\ UNCHANGED <<watchlist, deleteFailed>>
    /\ UNCHANGED <<storeVars, recVars, uiVars, moreVars, fnVars, homeVars>>

\* database.ts:180-184: one delete query settles; its { error } result is
\* not looked at, a rejection rejects the Promise.all
DeleteSettles(table) ==
    /\ table \in deletes
    /\ deletes' = deletes \ {table}
    /\ \E outcome \in StoreOutcomes :
          /\ user_ratings' =
                IF outcome = "ok" /\ table = "user_ratings" THEN {} ELSE user_ratings
          /\ user_preferences' =
                IF outcome = "ok" /\ table = "user_preferences" THEN {}
                ELSE user_preferences
          /\ watchlist' =
                IF outcome = "ok" /\ table = "watchlist" THEN {} ELSE watchlist
          /\ deleteFailed' = (deleteFailed \/ outcome # "ok")
          /\ clearPc' = IF outcome = "throw" THEN "rejected" ELSE clearPc
    /\ UNCHANGED <<recVars, uiVars, moreVars, fnVars, homeVars>>

\* database.ts:180-186: the Promise.all is fulfilled, clearAllData resolves
ClearResolves ==
    /\ clearPc = "deleting"
    /\ deletes = {}
    /\ clearPc' = "resolved"
    /\ UNCHANGED <<watchlist, deletes, deleteFailed>>
    /\ UNCHANGED <<storeVars, recVars, uiVars, moreVars, fnVars, homeVars>>

\* profile.tsx:49-50: loadData, then router.replace('/onboarding')
ReplaceWithOnboarding ==
    /\ clearPc = "resolved"
    /\ clearPc' = "onboarding"
    /\ UNCHANGED <<watchlist, deletes, deleteFailed>>
    /\ UNCHANGED <<storeVars, recVars, uiVars, moreVars, fnVars, homeVars>>

\* database.ts:210-221 called by profile.tsx:57-60
RemoveFromWatchlist(movieId) ==
    /\ \E w \in watchlist : w.movie_id = movieId
    /\ watchlist' = {w \in watchlist : w.movie_id # movieId}
    /\ UNCHANGED <<clearPc, deletes, deleteFailed>>
    /\ UNCHANGED <<storeVars, recVars, uiVars, moreVars, fnVars, homeVars>>

\* database.ts:163-174
DeleteRating(movieId) ==
    /\ \E r \in user_ratings : r.movie_id = movieId
    /\ user_ratings' = {r \in user_ratings : r.movie_id # movieId}
    /\ UNCHANGED user_preferences
    /\ UNCHANGED profileVars
    /\ UNCHANGED <<recVars, uiVars, moreVars, fnVars, homeVars>>

NextProfile ==
    \/ PressClear
    \/ ClearGetUser
    \/ \E table \in ClearTables : DeleteSettles(table)
    \/ ClearResolves
    \/ ReplaceWithOnboarding
    \/ \E movieId \in 1..4 : RemoveFromWatchlist(movieId)
    \/ \E movieId \in 1..4 : DeleteRating(movieId)

SpecProfile == InitProfile /\ [][NextProfile]_vars

----------------------------------------------------------------------------
(* Properties of clearAllData (SpecProfile) *)

\* C13: whenever clearAllData has resolved without throwing, every Rating,
\* every GenrePreference and every WatchlistEntry of the user has been
\* removed from the store.
C13_ClearRemovesAll ==
    clearPc \in {"resolved", "onboarding"} =>
        /\ user_ratings = {}
        /\ user_preferences = {}
        /\ watchlist = {}

\* C13, second half: a rating leaves the store by no other step than a
\* delete query of clearAllData or a deleteRating call.
C13_OnlyExplicitRemoval ==
    [][(\E r \in user_ratings : r \notin user_ratings') =>
          \/ DeleteSettles("user_ratings")
          \/ \E movieId \in 1..4 : DeleteRating(movieId)]_vars

\* the movies the issued queries are answered with, in the order the
\* queries were issued
RECURSIVE IssuedFrom(_)
IssuedFrom(i) ==
    IF i > Len(responses) THEN <<>> ELSE responses[i] \o IssuedFrom(i + 1)

IssuedMovies == IssuedFrom(1)

\* C24: for a fixed set of issued queries the deduplicated pool, its ids
\* and the entry retained for each id, is the same for every order in
\* which the awaited responses complete: it is determined by the answers
\* in the order the queries were issued.
C24_OrderIndependentMerge ==
    fnPc # "input" =>
        /\ {uniquePool[k].id : k \in DOMAIN uniquePool} =
              {IssuedMovies[i].id : i \in DOMAIN IssuedMovies}
        /\ \A k, l \in DOMAIN uniquePool : k # l => uniquePool[k].id # uniquePool[l].id
        /\ \A k \in DOMAIN uniquePool :
              \E i \in DOMAIN IssuedMovies :
                 /\ uniquePool[k] = IssuedMovies[i]
                 /\ \A j \in (i + 1)..Len(IssuedMovies) :
                       IssuedMovies[j].id # uniquePool[k].id

\* C24 witness: two queries that return different entries of movie 2,
\* merged after the second query was answered before the first.
C24_Witness ==
    /\ fnPc = "unique"
    /\ Len(arrivals) = 2
    /\ arrivals[1] = 2
    /\ responses[1] = <<M1, M2>>
    /\ responses[2] = <<M2Later, M3>>
    /\ \E k \in DOMAIN uniquePool : uniquePool[k] = M2Later

----------------------------------------------------------------------------
(* SpecTaste: buildTasteProfile, recommendations.ts:218-265, and what the  *)
(* request does after it                                                    *)

MaxTasteRatings == 2

\* the fields of a snapshot buildTasteProfile reads; "" is an absent name
TasteData(keywords, director, actors, production_company) ==
    [keywords |-> keywords, director |-> director, actors |-> actors,
     production_company |-> production_company]

\* the empty record {} of recommendations.ts:231
EmptyData == TasteData(<<>>, "", <<>>, "")

HeistData == TasteData(<<"heist", "heist", "space">>, "Nolan", <<"Bale", "Caine">>, "Syncopy")
SpaceData == TasteData(<<"space">>, "", <<"Bale">>, "Syncopy")

\* movie_data as the store returns it (database.ts:8): null, an object, a
\* JSON string of an object, an empty string, a string that is not JSON
TasteSnapshots ==
    { [kind |-> "null", data |-> EmptyData],
      [kind |-> "object", data |-> HeistData],
      [kind |-> "object", data |-> SpaceData],
      [kind |-> "json", data |-> HeistData],
      [kind |-> "emptyString", data |-> EmptyData],
      [kind |-> "badString", data |-> EmptyData] }

\* JSON.parse: the object a JSON string encodes, a SyntaxError otherwise
JSONParse(snapshot) ==
    IF snapshot.kind = "json" THEN [threw |-> FALSE, data |-> snapshot.data]
    ELSE [threw |-> TRUE, data |-> EmptyData]

\* recommendations.ts:227-231
dataOf(snapshot) ==
    IF snapshot.kind \in {"null", "emptyString"}
    THEN [threw |-> FALSE, data |-> EmptyData]
    ELSE IF snapshot.kind \in {"json", "badString"} THEN JSONParse(snapshot)
    ELSE [threw |-> FALSE, data |-> snapshot.data]

EmptyMap == [k \in {} |-> 0]

\* map.set(key, (map.get(key) || 0) + 1)
Increment(map, key) ==
    IF key \in DOMAIN map THEN [map EXCEPT ![key] = @ + 1]
    ELSE (key :> 1) @@ map

RECURSIVE IncrementAll(_, _)
IncrementAll(map, keys) ==
    IF keys = <<>> THEN map
    ELSE IncrementAll(Increment(map, Head(keys)), Tail(keys))

\* recommendations.ts:234-261, the body of the loop after data is read
countInto(profile, data) ==
    [favoriteKeywords |-> IncrementAll(profile.favoriteKeywords, data.keywords),
     favoriteDirectors |->
        IF data.director # "" THEN Increment(profile.favoriteDirectors, data.director)
        ELSE profile.favoriteDirectors,
     favoriteActors |-> IncrementAll(profile.favoriteActors, data.actors),
     favoriteStudios |->
        IF data.production_company # ""
        THEN Increment(profile.favoriteStudios, data.production_company)
        ELSE profile.favoriteStudios]

\* recommendations.ts:226-262, the loop over the liked movies
RECURSIVE tasteLoop(_, _)
tasteLoop(profile, liked) ==
    IF liked = <<>> THEN [threw |-> FALSE, profile |-> profile]
    ELSE LET read == dataOf(Head(liked).movie_data)
         IN  IF read.threw THEN [threw |-> TRUE, profile |-> profile]
             ELSE tasteLoop(countInto(profile, read.data), Tail(liked))

EmptyProfile ==
    [favoriteKeywords |-> EmptyMap, favoriteDirectors |-> EmptyMap,
     favoriteActors |-> EmptyMap, favoriteStudios |-> EmptyMap]

\* the build that counts the disliked movies too
BuildFromEveryRating(rated) == tasteLoop(EmptyProfile, rated)

\* recommendations.ts:218-265
buildTasteProfile(rated) ==
    tasteLoop(EmptyProfile, SelectSeq(rated, LAMBDA r : r.rating = 1))

InitTaste ==
    /\ \E n \in 0..MaxTasteRatings :
          \E rs \in [1..n -> {-1, 1} \X TasteSnapshots] :
             ratedMovies = [i \in 1..n |-> Rating(i, rs[i][1], n - i + 1, rs[i][2])]
    /\ favoriteGenres = <<Action>>
    /\ fnPc = "input"
    /\ tasteProfile = NoProfile
    /\ page = 1
    /\ pc = "idle"
    /\ genreMoviesPromises = <<>>
    /\ scoredMovies = <<>>
    /\ results = <<>>
    /\ path = "none"
    /\ discoverCalls = 0
    /\ popularCalls = 0
    /\ failed = {}
    /\ user_ratings = {}
    /\ user_preferences = {}
    /\ candidates = <<>>
    /\ totalLiked = 0
    /\ scoreDatas = <<>>
    /\ breakdowns = <<>>
    /\ pool = <<>>
    /\ uniquePool = <<>>
    /\ unratedPool = <<>>
    /\ UiIdle
    /\ ProfileIdle
    /\ HomeIdle
    /\ FanIdle
    /\ WatchIdle
    /\ SearchIdle
    /\ ChatIdle

TasteFrame ==
    /\ UNCHANGED <<user_ratings, user_preferences, pc, page, favoriteGenres,
                   ratedMovies, genreMoviesPromises, scoredMovies, discoverCalls,
                   failed>>
    /\ UNCHANGED <<candidates, totalLiked, scoreDatas, breakdowns, pool,
                   uniquePool, unratedPool>>
    /\ UNCHANGED <<uiVars, profileVars, homeVars, fanVars, watchVars,
                   searchVars, chatVars>>

\* recommendations.ts:110
BuildTasteProfile ==
    /\ fnPc = "input"
    /\ LET built == buildTasteProfile(ratedMovies)
       IN  IF built.threw
           THEN /\ fnPc' = "threw"
                /\ UNCHANGED tasteProfile
           ELSE /\ fnPc' = "built"
                /\ tasteProfile' = built.profile
    /\ UNCHANGED <<results, path, popularCalls>>
    /\ TasteFrame

\* recommendations.ts:113-169: the request goes on to score and return
ScoreWithProfile ==
    /\ fnPc = "built"
    /\ path' = "personalised"
    /\ fnPc' = "done"
    /\ UNCHANGED <<results, popularCalls, tasteProfile>>
    /\ TasteFrame

\* recommendations.ts:170-175: the catch block answers with popular movies
CatchBuildError ==
    /\ fnPc = "threw"
    /\ popularCalls' = popularCalls + 1
    /\ results' = PopularResults(page)
    /\ path' = "fallback"
    /\ fnPc' = "done"
    /\ UNCHANGED tasteProfile
    /\ TasteFrame

NextTaste ==
    \/ BuildTasteProfile
    \/ ScoreWithProfile
    \/ CatchBuildError

SpecTaste == InitTaste /\ [][NextTaste]_vars

----------------------------------------------------------------------------
(* Properties of buildTasteProfile (SpecTaste) *)

TasteNames == {"heist", "space", "Nolan", "Bale", "Caine", "Syncopy"}

CountIn(map, name) == IF name \in DOMAIN map THEN map[name] ELSE 0

\* the content of the snapshot of a rating, nothing for a missing one
ContentOf(r) ==
    IF r.movie_data.kind \in {"object", "json"} THEN r.movie_data.data ELSE EmptyData

\* occurrences of a name in the lists / as the name of the liked ratings
ListOccurrences(name, field) ==
    Cardinality({ij \in (DOMAIN ratedMovies) \X (1..3) :
        /\ ratedMovies[ij[1]].rating = 1
        /\ ij[2] \in DOMAIN ContentOf(ratedMovies[ij[1]])[field]
        /\ ContentOf(ratedMovies[ij[1]])[field][ij[2]] = name})

NameOccurrences(name, field) ==
    Cardinality({i \in DOMAIN ratedMovies :
        ratedMovies[i].rating = 1 /\ ContentOf(ratedMovies[i])[field] = name})

CountsOfLikedOnly ==
    (fnPc \in {"built", "done"} /\ tasteProfile # NoProfile) =>
        \A name \in TasteNames :
            /\ CountIn(tasteProfile.favoriteKeywords, name) =
                  ListOccurrences(name, "keywords")
            /\ CountIn(tasteProfile.favoriteActors, name) =
                  ListOccurrences(name, "actors")
            /\ CountIn(tasteProfile.favoriteDirectors, name) =
                  NameOccurrences(name, "director")
            /\ CountIn(tasteProfile.favoriteStudios, name) =
                  NameOccurrences(name, "production_company")

\* C22: the profile counts only the ratings with rating +1: the count of
\* every keyword, director, actor and studio equals the number of its
\* occurrences in the snapshots of the liked ratings, disliked ratings
\* add nothing, and the rating list handed in is not modified.
C22_LikedOnly ==
    /\ []CountsOfLikedOnly
    /\ [][ratedMovies' = ratedMovies]_vars

\* C22 witness: a profile built from a liked and a disliked rating that
\* both carry keywords, with the keyword the liked snapshot holds twice
\* counted twice.
C22_Witness ==
    /\ fnPc = "built"
    /\ Len(ratedMovies) = 2
    /\ ratedMovies[1].rating = 1 /\ ratedMovies[1].movie_data.data = HeistData
    /\ ratedMovies[2].rating = -1 /\ ratedMovies[2].movie_data.data = SpaceData
    /\ CountIn(tasteProfile.favoriteKeywords, "heist") = 2
    /\ CountIn(tasteProfile.favoriteKeywords, "space") = 1

\* a liked rating whose snapshot is missing or is not parseable
Unreadable(r) ==
    r.rating = 1 /\ r.movie_data.kind \in {"null", "emptyString", "badString"}

\* C23: a liked rating whose snapshot is missing or is an unparseable
\* string adds nothing and does not abort the build: the profile is the
\* one built from the remaining ratings and the request stays on the
\* personalised path.
C23_UnreadableSnapshotSkipped ==
    (fnPc # "input" /\ \E i \in DOMAIN ratedMovies : Unreadable(ratedMovies[i])) =>
        /\ fnPc # "threw"
        /\ tasteProfile =
              buildTasteProfile(SelectSeq(ratedMovies, LAMBDA r : ~Unreadable(r))).profile
        /\ fnPc = "done" => path = "personalised"

----------------------------------------------------------------------------
(* SpecWatch: the watchlist button of the movie detail screen with the     *)
(* store calls it issues, and the rating calls of the store                *)

MaxToggles == 3

\* the movie the detail screen shows
ShownMovie == 1

\* the movies the store calls are made for
WatchMovies == {1, 3}

InStoredWatchlist(movieId) == \E w \in watchlist : w.movie_id = movieId

InitWatch ==
    /\ watchlist \in {{}, {WatchlistEntry(ShownMovie, 0)}}
    /\ inWatchlist = InStoredWatchlist(ShownMovie)
    /\ user_ratings \in {{}, {Rating(3, -1, 1, NoData)}}
    /\ user_preferences \in {{}, {Preference(Drama, 2)}}
    /\ watchCalls = {}
    /\ toggles = 0
    /\ watchFailed = FALSE
    /\ clearPc = "idle"
    /\ deletes = {}
    /\ deleteFailed = FALSE
    /\ page = 1
    /\ RecIdle
    /\ UiIdle
    /\ FnIdle
    /\ HomeIdle
    /\ TasteIdle
    /\ FanIdle
    /\ SearchIdle
    /\ ChatIdle

WatchFrame ==
    UNCHANGED <<recVars, uiVars, fnVars, homeVars, tasteVars, fanVars,
                searchVars, chatVars, clearPc, deletes, deleteFailed>>

\* [id].tsx:52-69: the press flips the flag and issues the store call
ToggleWatchlist ==
    /\ toggles < MaxToggles
    /\ LET newStatus == ~inWatchlist
       IN  /\ inWatchlist' = newStatus
           /\ watchCalls' = watchCalls \cup
                 {[id |-> toggles + 1, add |-> newStatus, movie_id |-> ShownMovie]}
    /\ toggles' = toggles + 1
    /\ UNCHANGED <<watchlist, watchFailed, user_ratings, user_preferences>>
    /\ WatchFrame

\* database.ts:190-221 and [id].tsx:70-74: a watchlist call of the screen
\* settles; a failed call sets the flag to the opposite of what its press
\* had set
WatchCallSettles ==
    \E c \in watchCalls : \E outcome \in StoreOutcomes :
        /\ watchCalls' = watchCalls \ {c}
        /\ IF outcome = "ok"
           THEN /\ watchlist' =
                      IF c.add
                      THEN upsertRating(watchlist, WatchlistEntry(c.movie_id, c.id))
                      ELSE {w \in watchlist : w.movie_id # c.movie_id}
                /\ UNCHANGED <<inWatchlist, watchFailed>>
           ELSE /\ inWatchlist' = ~c.add
                /\ watchFailed' = TRUE
                /\ UNCHANGED watchlist
        /\ UNCHANGED <<toggles, user_ratings, user_preferences>>
        /\ WatchFrame

\* a rateMovie that also takes the movie off the watchlist
RateMovieOffWatchlist(movieId, rating) ==
    /\ user_ratings' = upsertRating(user_ratings, Rating(movieId, rating, 2, NoData))
    /\ user_ratings' # user_ratings
    /\ watchlist' = {w \in watchlist : w.movie_id # movieId}
    /\ UNCHANGED <<user_preferences, inWatchlist, watchCalls, toggles, watchFailed>>
    /\ WatchFrame

\* database.ts:23-42
RateMovie(movieId, rating) ==
    /\ user_ratings' = upsertRating(user_ratings, Rating(movieId, rating, 2, NoData))
    /\ user_ratings' # user_ratings
    /\ UNCHANGED <<user_preferences, watchlist, inWatchlist, watchCalls, toggles,
                   watchFailed>>
    /\ WatchFrame

\* database.ts:190-208 called for another movie than the shown one
AddToWatchlist(movieId) ==
    /\ movieId # ShownMovie
    /\ ~InStoredWatchlist(movieId)
    /\ watchlist' = upsertRating(watchlist, WatchlistEntry(movieId, 0))
    /\ UNCHANGED <<user_ratings, user_preferences, inWatchlist, watchCalls,
                   toggles, watchFailed>>
    /\ WatchFrame

NextWatch ==
    \/ ToggleWatchlist
    \/ WatchCallSettles
    \/ \E movieId \in WatchMovies, rating \in {-1, 1} : RateMovie(movieId, rating)
    \/ \E movieId \in WatchMovies : DeleteRating(movieId)
    \/ \E movieId \in WatchMovies : AddToWatchlist(movieId)
    \/ \E movieId \in WatchMovies \ {ShownMovie} : RemoveFromWatchlist(movieId)

SpecWatch == InitWatch /\ [][NextWatch]_vars

----------------------------------------------------------------------------
(* Properties of the watchlist (SpecWatch) *)

IsRated(movieId) == \E r \in user_ratings : r.movie_id = movieId

\* C25: rateMovie and deleteRating leave the watchlist unchanged, and
\* addToWatchlist and removeFromWatchlist leave the ratings and the genre
\* preferences unchanged.
C25_RatingsAndWatchlistIndependent ==
    [][/\ ((\E movieId \in WatchMovies, rating \in {-1, 1} : RateMovie(movieId, rating))
            \/ (\E movieId \in WatchMovies : DeleteRating(movieId))
            \/ user_ratings' # user_ratings)
          => watchlist' = watchlist
       /\ watchlist' # watchlist =>
             (user_ratings' = user_ratings /\ user_preferences' = user_preferences)]_vars

\* C25 witness: a movie that is rated and in the watchlist beside a movie
\* that is in neither.
C25_Witness ==
    /\ IsRated(ShownMovie) /\ InStoredWatchlist(ShownMovie)
    /\ ~IsRated(3) /\ ~InStoredWatchlist(3)
    /\ watchCalls = {}

\* C25 witness of the two other combinations: a movie rated and not in
\* the watchlist beside a movie in the watchlist and not rated.
C25_WitnessMixed ==
    /\ IsRated(ShownMovie) /\ ~InStoredWatchlist(ShownMovie)
    /\ ~IsRated(3) /\ InStoredWatchlist(3)

\* C26: once no watchlist call is in flight the displayed inWatchlist flag
\* equals the membership of the movie in the stored watchlist.
C26_FlagMatchesStore ==
    watchCalls = {} => (inWatchlist = InStoredWatchlist(ShownMovie))

----------------------------------------------------------------------------
(* Text typed by the user: a sequence of characters *)

RECURSIVE TrimStart(_)
TrimStart(t) == IF t # <<>> /\ Head(t) = " " THEN TrimStart(Tail(t)) ELSE t

RECURSIVE TrimEnd(_)
TrimEnd(t) ==
    IF t # <<>> /\ t[Len(t)] = " " THEN TrimEnd(SubSeq(t, 1, Len(t) - 1)) ELSE t

\* String.prototype.trim
Trim(t) == TrimEnd(TrimStart(t))

----------------------------------------------------------------------------
(* SpecSearch: handleSearch of the search screen, search.tsx:51-68 *)

MaxSearches == 3

\* search.tsx:54, the least trimmed length that is searched
MinQueryLength == 2

SearchTexts ==
    { <<>>, <<"a">>, <<"a", " ">>, <<"a", "b">>, <<"a", "b", "c">> }

\* tmdbService.searchMovies(query).results, tmdb.ts:28-33
SearchResultsFor(text) ==
    IF Len(text) = 2 THEN <<M1, M2>>
    ELSE IF Len(text) = 3 THEN <<M1>>
    ELSE <<>>

InitSearch ==
    /\ searchQuery = <<>>
    /\ searchResults = <<>>
    /\ searchLoading = FALSE
    /\ searches = {}
    /\ searchCalls = 0
    /\ searchFailed = FALSE
    /\ user_ratings = {}
    /\ user_preferences = {}
    /\ page = 1
    /\ RecIdle
    /\ UiIdle
    /\ FnIdle
    /\ ProfileIdle
    /\ HomeIdle
    /\ TasteIdle
    /\ FanIdle
    /\ WatchIdle
    /\ ChatIdle

SearchFrame ==
    UNCHANGED <<storeVars, recVars, uiVars, fnVars, profileVars, homeVars,
                tasteVars, fanVars, watchVars, chatVars>>

\* search.tsx:51-62, handleSearch up to its await
HandleSearch(text) ==
    /\ searchQuery' = text
    /\ IF Len(Trim(text)) < MinQueryLength
       THEN /\ searchResults' = <<>>
            /\ UNCHANGED <<searchLoading, searches, searchCalls>>
       ELSE /\ searchCalls < MaxSearches
            /\ searchLoading' = TRUE
            /\ searches' = searches \cup {[id |-> searchCalls + 1, query |-> text]}
            /\ searchCalls' = searchCalls + 1
            /\ UNCHANGED searchResults
    /\ UNCHANGED searchFailed
    /\ SearchFrame

\* search.tsx:62-67, the response to a request
SearchFulfilled ==
    \E request \in searches :
        /\ searches' = searches \ {request}
        /\ searchResults' = SearchResultsFor(request.query)
        /\ searchLoading' = FALSE
        /\ UNCHANGED <<searchQuery, searchCalls, searchFailed>>
        /\ SearchFrame

\* search.tsx:64-67, the request failed
SearchRejected ==
    \E request \in searches :
        /\ searches' = searches \ {request}
        /\ searchLoading' = FALSE
        /\ searchFailed' = TRUE
        /\ UNCHANGED <<searchQuery, searchResults, searchCalls>>
        /\ SearchFrame

NextSearch ==
    \/ \E text \in SearchTexts : HandleSearch(text)
    \/ SearchFulfilled
    \/ SearchRejected

SpecSearch == InitSearch /\ [][NextSearch]_vars

----------------------------------------------------------------------------
(* Properties of the search screen (SpecSearch) *)

\* C28: once no search request is in flight (and none has failed) the
\* displayed results are those of the most recently entered query, and
\* they are empty when that query has fewer than 2 non-blank characters.
C28_ResultsOfLatestQuery ==
    (searches = {} /\ ~searchFailed) =>
        searchResults =
            IF Len(Trim(searchQuery)) < 2 THEN <<>>
            ELSE SearchResultsFor(searchQuery)

----------------------------------------------------------------------------
(* SpecChat: handleSend of the chat screen, chat.tsx:38-88 *)

MaxSends == 2

ChatTexts == { <<>>, <<" ">>, <<"h", "i">>, <<" ", "o", "k", " ">> }

Message(role, content) == [role |-> role, content |-> content]

\* chat.tsx:26-33
Greeting == Message("assistant", "greeting")

InitChat ==
    /\ messages = <<Greeting>>
    /\ input = <<>>
    /\ chatLoading = FALSE
    /\ chatCalls = 0
    /\ user_ratings = {}
    /\ user_preferences = {}
    /\ page = 1
    /\ RecIdle
    /\ UiIdle
    /\ FnIdle
    /\ ProfileIdle
    /\ HomeIdle
    /\ TasteIdle
    /\ FanIdle
    /\ WatchIdle
    /\ SearchIdle

ChatFrame ==
    UNCHANGED <<storeVars, recVars, uiVars, fnVars, profileVars, homeVars,
                tasteVars, fanVars, watchVars, searchVars>>

\* chat.tsx:183, onChangeText of the input
SetInput(text) ==
    /\ input' = text
    /\ input' # input
    /\ UNCHANGED <<messages, chatLoading, chatCalls>>
    /\ ChatFrame

\* chat.tsx:38-59, handleSend up to its await
HandleSend ==
    /\ IF Trim(input) = <<>> \/ chatLoading
       THEN UNCHANGED <<messages, input, chatLoading, chatCalls>>
       ELSE /\ chatCalls < MaxSends
            /\ messages' = Append(messages, Message("user", Trim(input)))
            /\ input' = <<>>
            /\ chatLoading' = TRUE
            /\ chatCalls' = chatCalls + 1
    /\ ChatFrame

\* chat.tsx:59-68 and 84-86: the chat call returned the reply
ChatFulfilled ==
    /\ chatLoading
    /\ messages' = Append(messages, Message("assistant", "reply"))
    /\ chatLoading' = FALSE
    /\ UNCHANGED <<input, chatCalls>>
    /\ ChatFrame

\* a failed chat call that leaves no message
ChatRejectedSilently ==
    /\ chatLoading
    /\ chatLoading' = FALSE
    /\ UNCHANGED <<messages, input, chatCalls>>
    /\ ChatFrame

\* chat.tsx:74-86: the chat call failed (part_001:256-284 rethrows)
ChatRejected ==
    /\ chatLoading
    /\ messages' = Append(messages, Message("assistant", "connection error"))
    /\ chatLoading' = FALSE
    /\ UNCHANGED <<input, chatCalls>>
    /\ ChatFrame

NextChat ==
    \/ \E text \in ChatTexts : SetInput(text)
    \/ HandleSend
    \/ ChatFulfilled
    \/ ChatRejected

\* a chat call that was issued settles
SpecChat ==
    InitChat /\ [][NextChat]_vars /\ WF_vars(ChatFulfilled \/ ChatRejected)

----------------------------------------------------------------------------
(* Properties of the chat screen (SpecChat) *)

CountRole(role) == Cardinality({i \in DOMAIN messages : messages[i].role = role})

\* every accepted send has its user message, followed by exactly one
\* assistant message once its call has settled
OneAnswerPerSend ==
    /\ CountRole("user") = chatCalls
    /\ CountRole("assistant") = 1 + chatCalls - (IF chatLoading THEN 1 ELSE 0)
    /\ chatLoading <=> messages[Len(messages)].role = "user"
    /\ \A i \in DOMAIN messages :
          (messages[i].role = "user" /\ i < Len(messages)) =>
              messages[i + 1].role = "assistant"

\* C29: handleSend does nothing when the input is blank or a request is in
\* flight; every accepted send appends the user message and is eventually
\* followed by exactly one assistant message, the reply or the connection
\* error message, after which loading is false again.
C29_SendGetsOneAnswer ==
    /\ []OneAnswerPerSend
    /\ [][(Trim(input) = <<>> \/ chatLoading) =>
             (chatCalls' = chatCalls /\ CountRole("user")' = CountRole("user"))]_vars
    /\ [][chatCalls' # chatCalls =>
             (/\ messages' = Append(messages, Message("user", Trim(input)))
              /\ chatLoading')]_vars
    /\ \A n \in 1..MaxSends :
          (chatLoading /\ chatCalls = n) ~>
              (/\ ~chatLoading
               /\ chatCalls = n
               /\ messages[Len(messages)].role = "assistant")

\* C29 witness: a send whose chat call failed, answered by the connection
\* error message, with loading false again.
C29_Witness ==
    /\ ~chatLoading
    /\ chatCalls = 1
    /\ Len(messages) = 3
    /\ messages[2] = Message("user", <<"o", "k">>)
    /\ messages[3] = Message("assistant", "connection error")

====
